---- MODULE Spec2Model ----
(***************************************************************************)
(* Inter-service task coordination of fieldedge-utilities:                 *)
(*   - MicroserviceProxy (microservice/msproxy.py): property queries over  *)
(*     MQTT, correlated by task uid, with a blocking task queue;           *)
(*   - IscTaskQueue / QueuedIscTask (isc.py): the task queue and its       *)
(*     expiry sweep;                                                       *)
(*   - RepeatingTimer (timer.py): the thread that drives the sweep.        *)
(* The blocking gate `task_blocking` of the proxy's queue and the          *)
(* PropertyCache, which isc.py does not define, follow the specification.  *)
(***************************************************************************)
EXTENDS Integers, Sequences, FiniteSets, TLC

\* ------------------------------------------------------------- bounds
MaxUid == 3        \* tasks created in one run (uuid4 values are fresh)
MainUids == 2      \* tasks created in one run of the proxy as a whole
MaxTime == 2       \* the clock runs 0..MaxTime (seconds)
InitTimeout == 1   \* init_timeout keyword of the proxy (integer > 0)
CacheTtl == 1      \* cache_lifetime keyword of the proxy when not None
MaxQueue == 2      \* tasks appended directly to a queue
MaxSent == 1       \* messages a microservice publishes of its own accord
MaxLen == 4        \* characters of a property name
MaxTagLen == 2     \* characters of a tag
MaxMsgId == 2      \* message ids
MaxSize == 1       \* decoded bytes of a message
MaxBytes == 3      \* bytes ever added to a message store
MaxAttempts == 30  \* initialization attempts counted
MaxSeconds == 2    \* interval of a repeating timer (seconds)
MaxFires == 2      \* invocations of a timer's target
MaxCalls == 3      \* calls made on a repeating timer
MaxQos == 12       \* interval assigned to a metrics manager (seconds)

\* ------------------------------------------------- program constants
DefaultLifetime == 10     \* task_meta.get('timeout', 10)
ShortLifetime == 1        \* isc_task.lifetime = 1 of the expiry test
DefaultCacheLifetime == 5 \* cache_property(cache_tag, cache_lifetime=5)
DefaultRetryInterval == 30 \* ConnectionManager.retry_interval: int = 30
MaxBackoff == 86400       \* one day, the ceiling of backoff_interval
ChunksPerSecond == 4      \* sleep_chunk: float = 0.25
DefaultSampleInterval == 12   \* sample_interval: int = 12
DefaultMetricsInterval == 300 \* metrics_interval: int = 300
MaxInterval == 86400      \* range (0, 86401)

\* ------------------------------------------------------ value domains
NoneInt == 0 - 1                       \* Python None where an int is expected
PropNames == {"p", "q"}
Values == {0, 1}                       \* 0 is falsy, 1 is truthy
Callers == {1, 2}                      \* caller threads of one proxy
MainCaller == {1}                      \* the application's main thread
Uids == 1..MaxUid
StrayUid == MaxUid + 1                 \* a uid no task of this proxy carries
Tag == "modem"

\* Python values stored in task_meta, tagged by type.
IntV(n) == [t |-> "int", i |-> n]
StrV(s) == [t |-> "str", s |-> s]
FnV(f) == [t |-> "fn", f |-> f]
Callable(x) == x.t = "fn"

EmptyMap == [k \in {} |-> 0]
Maps == UNION {[D -> Values] : D \in SUBSET PropNames}
NoBody == [nobody |-> TRUE]            \* a response whose 'properties' is missing or no mapping
\* The bodies that arrive: no mapping, the empty mapping, a value of p, or a
\* value of p together with one of q.
Payloads == {NoBody} \cup
    {m \in Maps : "q" \in DOMAIN m => (DOMAIN m = PropNames /\ m["p"] = 1 /\ m["q"] = 0)}
IsMapping(x) == x # NoBody

Put(m, k, v) == [x \in DOMAIN m \cup {k} |-> IF x = k THEN v ELSE m[x]]
Drop(m, k) == [x \in DOMAIN m \ {k} |-> m[x]]

VARIABLES
    now,            \* time.time(), whole seconds
    queue,          \* self._isc_queue: sequence of tasks
    gate,           \* self._isc_queue.task_blocking (threading.Event)
    snapshot,       \* self._proxy_properties: [none, m]
    cache,          \* self._property_cache: key -> [value, cached_at, ttl]
    cache_lifetime, \* self._cache_lifetime
    initialized,    \* self._initialized
    initializing,   \* self._initializing
    callers,        \* position of each caller thread inside the proxy
    next_uid,       \* next fresh uid
    published,      \* uids passed to self._publish, in order
    removed,        \* uids whose task left the queue (handled or expired)
    cb_count,       \* invocations of task.callback, per uid
    tcb_count,      \* invocations of the task's timeout_callback, per uid
    init_calls,     \* arguments `success` of the init_callback invocations
    timer_ok,       \* the expiry timer thread still fires its target
    ms,             \* the FieldedgeMicroservice object (isc.py)
    sent,           \* messages handed to the MQTT client's publish, in order
    conv,           \* the last call of a name conversion (properties.py)
    subs,           \* a SubscriptionProxy and the calls it has made
    store,          \* a MessageStore (message.py)
    cm,             \* a ConnectionManager (modem.py)
    rt,             \* a RepeatingTimer and its thread (timer.py)
    qos,            \* a QosMetricsManager (modem.py)
    publish_callable, \* callable(self._publish) of the proxy
    net,            \* position of the network-callback thread in task_handle
    ev              \* the last operation and its outcome

vars == <<now, queue, gate, snapshot, cache, cache_lifetime, initialized,
          initializing, callers, next_uid, published, removed, cb_count,
          tcb_count, init_calls, timer_ok, ms, sent, conv, subs, store, cm, rt,
          qos, publish_callable, net, ev>>

\* The components beside the proxy and the microservice.
otherState == <<conv, subs, store, cm, rt, qos, publish_callable, net>>

\* ------------------------------------------------------------ tasks
NoMeta == [k \in {} |-> IntV(0)]
NoTask == [uid |-> 0, task_type |-> "", meta |-> NoMeta,
           lifetime |-> NoneInt, queued_time |-> 0]

\* QueuedIscTask.__init__ / IscTask(...): queued_time is the creation time.
IscTask(uid, task_type, meta, lifetime) ==
    [uid |-> uid, task_type |-> task_type, meta |-> meta,
     lifetime |-> lifetime, queued_time |-> now]

Idle == [pc |-> "idle", op |-> "", name |-> "", task |-> NoTask]

\* The last operation that reported an outcome (a result, an exception, a
\* publication): who ran it (a caller or a uid), how it ended, what it
\* returned (val: a value, snap: a snapshot) and, for a callback, its arguments.
Ev(op, who, res) ==
    [op |-> op, who |-> who, res |-> res, val |-> NoneInt,
     snap |-> [none |-> TRUE, m |-> EmptyMap], meta |-> NoMeta, body |-> NoBody]

\* ------------------------------------------------- IscTaskQueue (isc.py)
NotATask == [nottask |-> TRUE]
IsTask(item) == item # NotATask

RemoveAt(q, i) == SubSeq(q, 1, i - 1) \o SubSeq(q, i + 1, Len(q))

\* IscTaskQueue.append: only the type of the item is checked.
QueueAppend(q, item) ==
    IF ~IsTask(item) THEN [q |-> q, err |-> "ValueError"]
    ELSE [q |-> Append(q, item), err |-> ""]

\* IscTaskQueue.insert: always raises.
QueueInsert(q, index, element) == [q |-> q, err |-> "OSError"]

\* IscTaskQueue.is_queued(task_id)
IsQueued(q, task_id) == \E i \in 1..Len(q) : q[i].uid = task_id

\* IscTaskQueue.is_queued(cb_meta=(k, v)) / peek(task_meta=(k, v))
IsQueuedMeta(q, k, v) ==
    \E i \in 1..Len(q) : k \in DOMAIN q[i].meta /\ q[i].meta[k] = v

\* A task_get that returns the task and leaves it queued.
TaskGetPeek(q, task_id) ==
    IF IsQueued(q, task_id)
    THEN LET i == CHOOSE j \in 1..Len(q) : q[j].uid = task_id
         IN [q |-> q, task |-> q[i]]
    ELSE [q |-> q, task |-> NoTask]

\* IscTaskQueue.task_get / get: pops the first task with the uid, else None.
TaskGet(q, task_id) ==
    IF IsQueued(q, task_id)
    THEN LET i == CHOOSE j \in 1..Len(q) :
                      /\ q[j].uid = task_id
                      /\ \A h \in 1..(j - 1) : q[h].uid # task_id
         IN [q |-> RemoveAt(q, i), task |-> q[i]]
    ELSE [q |-> q, task |-> NoTask]

\* The test of the first loop of remove_expired.
Expired(task) ==
    /\ task.lifetime # NoneInt
    /\ now - task.queued_time > task.lifetime

\* The indices collected by the first loop (ascending, as enumerate yields).
RECURSIVE ExpiredFrom(_, _)
ExpiredFrom(q, i) ==
    IF i > Len(q) THEN <<>>
    ELSE (IF Expired(q[i]) THEN <<i>> ELSE <<>>) \o ExpiredFrom(q, i + 1)

\* The metadata handed to the timeout call: task_id and every other entry.
TimeoutMeta(rem) == Put(Drop(rem.meta, "timeout_callback"), "task_id", IntV(rem.uid))

HasTimeoutCallback(rem) ==
    /\ "timeout_callback" \in DOMAIN rem.meta
    /\ Callable(rem.meta["timeout_callback"])

\* The call on the last line of remove_expired: the entry under 'timeout' is
\* looked up and called.
TimeoutCall(rem) ==
    IF "timeout" \notin DOMAIN rem.meta THEN [err |-> "KeyError", fn |-> ""]
    ELSE IF ~Callable(rem.meta["timeout"]) THEN [err |-> "TypeError", fn |-> ""]
    ELSE [err |-> "", fn |-> rem.meta["timeout"].f]

\* The second loop of remove_expired: pops at the collected indices, in order,
\* from the list as it is by then, and stops at the first exception.
\* Result: the queue, the popped tasks, the calls made, the exception.
RECURSIVE SweepLoop(_, _, _, _)
SweepLoop(q, idxs, popped, calls) ==
    IF idxs = <<>> THEN [q |-> q, popped |-> popped, calls |-> calls, err |-> ""]
    ELSE LET i == Head(idxs) IN
         IF i > Len(q)
         THEN [q |-> q, popped |-> popped, calls |-> calls, err |-> "IndexError"]
         ELSE LET rem == q[i]
                  q2 == RemoveAt(q, i)
                  p2 == Append(popped, rem)
              IN IF ~HasTimeoutCallback(rem)
                 THEN SweepLoop(q2, Tail(idxs), p2, calls)
                 ELSE LET c == TimeoutCall(rem) IN
                      IF c.err # ""
                      THEN [q |-> q2, popped |-> p2, calls |-> calls, err |-> c.err]
                      ELSE SweepLoop(q2, Tail(idxs), p2,
                                     Append(calls, [fn |-> c.fn, uid |-> rem.uid,
                                                    cb |-> rem.meta["timeout_callback"].f,
                                                    meta |-> TimeoutMeta(rem)]))

\* IscTaskQueue.remove_expired
RemoveExpired(q) ==
    IF Len(q) = 0 THEN [q |-> q, popped |-> <<>>, calls |-> <<>>, err |-> ""]
    ELSE SweepLoop(q, ExpiredFrom(q, 1), <<>>, <<>>)

\* The blocking gate of the proxy's queue: cleared when a task is added, set
\* when a task leaves by expiry.
GateOnAppend == FALSE
GateOnExpiry == TRUE

\* --------------------------------------------------------- PropertyCache
CacheKeys == PropNames \cup {"all"}

\* An entry is valid iff ttl is None or now - cached_at < ttl.
EntryValid(e) == e.ttl = NoneInt \/ now - e.cached_at < e.ttl

\* The time kept with an entry; no operation reads it when ttl is None, and
\* the model then keeps 0.
CachedAt(ttl) == IF ttl = NoneInt THEN 0 ELSE now

\* PropertyCache.cache(value, key, ttl)
CachePut(ch, value, key, ttl) ==
    Put(ch, key, [value |-> value, cached_at |-> CachedAt(ttl), ttl |-> ttl])

\* PropertyCache.get_cached(key): the value iff valid, else None; an expired
\* entry is evicted.
GetCached(ch, key) ==
    IF key \in DOMAIN ch /\ EntryValid(ch[key]) THEN ch[key].value ELSE NoneInt
AfterGetCached(ch, key) ==
    IF key \in DOMAIN ch /\ ~EntryValid(ch[key]) THEN Drop(ch, key) ELSE ch

\* The test `if cached:` inverted.
NotTruthy(v) == ~(v # NoneInt /\ v # 0)

\* Python truth of a cached value: None and 0 are falsy.
Truthy(v) == v # NoneInt /\ v # 0

\* ------------------------------------- FieldedgeMicroservice (isc.py)
NoneV == [t |-> "none"]                \* Python None among tagged values
UuidV(n) == [t |-> "uuid", u |-> n]    \* str(uuid4()), the n-th fresh value
TestTag == "test"                      \* TAG of the test service
ClassTag == "testservice"              \* get_class_tag: cls.__name__.lower()
OtherTags == {"other"}                 \* tags of the other microservices

\* Names are sequences of words: sub_prop is <<"sub", "prop">>, subProp is
\* <<"sub", "Prop">>.
Words == {"sub", "prop", "log", "level", "uid", "ts", TestTag, ClassTag}
Title(w) ==
    CASE w = "sub" -> "Sub" [] w = "prop" -> "Prop" [] w = "log" -> "Log"
      [] w = "level" -> "Level" [] w = "uid" -> "Uid" [] w = "ts" -> "Ts"
      [] w = TestTag -> "Test" [] w = ClassTag -> "Testservice"
      [] OTHER -> w
Lower(w) ==
    IF \E x \in Words : Title(x) = w
    THEN CHOOSE x \in Words : Title(x) = w
    ELSE w

\* snake_to_camel: one word is returned as it is, otherwise the first word
\* is lowered and the others are titled.
snake_to_camel(snake) ==
    IF Len(snake) = 1 THEN snake
    ELSE [i \in 1..Len(snake) |->
             IF i = 1 THEN Lower(snake[1]) ELSE Title(snake[i])]

\* tag_class_property(prop, tag_or_cls) with json=True.
tag_class_property(prop, tag) ==
    IF tag = NoneV THEN snake_to_camel(prop)
    ELSE snake_to_camel(<<Lower(tag.s)>> \o prop)

UidKey == <<"uid">>
TsKey == <<"ts">>
SubProp == <<"sub", "prop">>
LogLevel == <<"log", "level">>
MsProps == {SubProp, LogLevel}         \* the public properties of the class
NoMessage == [k \in {} |-> NoneV]      \* the empty dict

\* json_compatible(message): a new dict whose keys are camelCase.
json_compatible(message) ==
    [k \in {snake_to_camel(x) : x \in DOMAIN message} |->
        message[CHOOSE x \in DOMAIN message : snake_to_camel(x) = k]]

\* f'{tag}' of the constructor's argument: None is formatted as 'None'.
Fstr(v) == IF v = NoneV THEN "None" ELSE v.s

\* FieldedgeMicroservice.__init__(tag, isc_tags=...), auto_connect False.
NewService(tag, isc_tags) ==
    [tag |-> IF tag = NoneV THEN ClassTag ELSE tag.s,
     default_publish_topic |-> <<"fieldedge", Fstr(tag)>>,
     isc_tags |-> isc_tags,
     connected |-> FALSE,
     hide |-> <<>>,
     isc_ignore |-> <<<<"properties">>, <<"properties", "by", "type">>,
                      <<"isc", "properties">>,
                      <<"isc", "properties", "by", "type">>>>,
     rollcall_properties |-> <<>>,
     values |-> [p \in MsProps |->
                    IF p = SubProp THEN StrV("test") ELSE StrV("WARNING")],
     property_cache |-> [k \in {} |-> [cache_time |-> 0, cache_lifetime |-> 0]]]

InList(x, list) == \E i \in 1..Len(list) : list[i] = x
ListRemove(list, x) ==
    LET i == CHOOSE k \in 1..Len(list) :
                 list[k] = x /\ \A j \in 1..(k - 1) : list[j] # x
    IN [k \in 1..(Len(list) - 1) |-> IF k < i THEN list[k] ELSE list[k + 1]]

\* The property `properties`: the public properties that are not hidden.
MsProperties(s) == {p \in MsProps : ~InList(p, s.hide)}

\* topic.endswith('/rollcall') and f'/{tag}/' in topic, on topic levels.
EndsWithRollcall(topic) == Len(topic) >= 2 /\ topic[Len(topic)] = "rollcall"
HasLevel(topic, tag) == \E i \in 2..(Len(topic) - 1) : topic[i] = tag

ProxyInit ==
    /\ now = 0
    /\ queue = <<>>
    /\ gate = TRUE
    /\ snapshot = [none |-> TRUE, m |-> EmptyMap]
    /\ cache = [k \in {} |-> [value |-> 0, cached_at |-> 0, ttl |-> NoneInt]]
    /\ cache_lifetime \in {NoneInt, CacheTtl}
    /\ initialized = FALSE
    /\ initializing = FALSE
    /\ callers = [c \in Callers |-> Idle]
    /\ next_uid = 1
    /\ published = <<>>
    /\ removed = {}
    /\ cb_count = [u \in Uids |-> 0]
    /\ tcb_count = [u \in Uids |-> 0]
    /\ init_calls = <<>>
    /\ timer_ok = TRUE
    /\ ev = Ev("init", 0, "")

\* SubscriptionProxy.__init__: no subscriptions; no callback was called.
Modules == {"m1", "m2"}
Topics == {"t1", "t2"}
NoCalls == [m \in Modules |-> 0]
NewSubscriptionProxy ==
    [subscriptions |-> EmptyMap, mqtt |-> {}, calls |-> NoCalls, pub |-> "",
     ret |-> NoneV]

\* MessageStore(): the defaults of the dataclass.
NewMessageStore ==
    [tx_queue |-> <<>>, rx_queue |-> <<>>, byte_count |-> 0,
     last_mo_id |-> 0, last_mt_id |-> 0, err |-> "", ret |-> NoneV]

\* ConnectionManager(): the defaults of the dataclass that backoff reads.
ConnectionManager(retry_interval) ==
    [retry_interval |-> retry_interval, backoff_interval |-> retry_interval,
     init_attempts |-> 0]
NewConnectionManager == ConnectionManager(DefaultRetryInterval)

\* RepeatingTimer(seconds, target, defer=defer): the thread is not started;
\* calls counts the calls made on the timer, fired the invocations of target.
RepeatingTimer(seconds, defer) ==
    [interval |-> seconds, count |-> seconds * ChunksPerSecond,
     start_event |-> FALSE, reset_event |-> FALSE, terminate_event |-> FALSE,
     defer |-> defer, exception |-> FALSE, pc |-> "new", fired |-> 0,
     calls |-> 0, joined |-> ""]
NewRepeatingTimer == RepeatingTimer(1, TRUE)

\* QosMetricsManager(): the two intervals.
NewQosMetricsManager ==
    [metrics_interval |-> DefaultMetricsInterval,
     sample_interval |-> DefaultSampleInterval, err |-> ""]

\* The network-callback thread is outside task_handle.
NetIdle == [pc |-> "idle", uid |-> 0, body |-> NoBody]

\* No conversion was called yet, and the other components are new.
NoConv == [fn |-> "", arg |-> <<>>, tag |-> <<>>, err |-> "", res |-> <<>>,
           rtag |-> <<>>]

OtherInit ==
    /\ conv = NoConv
    /\ subs = NewSubscriptionProxy
    /\ store = NewMessageStore
    /\ cm = NewConnectionManager
    /\ rt = NewRepeatingTimer
    /\ qos = NewQosMetricsManager
    /\ publish_callable = TRUE
    /\ net = NetIdle

Init ==
    /\ ProxyInit
    /\ OtherInit
    /\ ms = NewService(StrV(TestTag), FALSE)
    /\ sent = <<>>

\* The clock advances between any two steps.
Tick ==
    /\ now < MaxTime
    /\ now' = now + 1
    /\ UNCHANGED <<queue, gate, snapshot, cache, cache_lifetime, initialized,
                   initializing, callers, next_uid, published, removed,
                   cb_count, tcb_count, init_calls, timer_ok, ms, sent, otherState, ev>>

\* ------------------------------------------- MicroserviceProxy (msproxy.py)
\* State NONE of the proxy: neither initialized nor initializing.
StateNone == ~initialized /\ ~initializing

\* query_properties up to and including self._publish(topic, message): the
\* task is built and the request published; task_add follows.
QueryProperties(c, op, name, method, meta) ==
    LET lifetime == IF "timeout" \in DOMAIN meta THEN meta["timeout"].i
                    ELSE DefaultLifetime
        task == IscTask(next_uid, method, meta, lifetime)
    IN /\ next_uid <= MaxUid
       /\ published' = Append(published, next_uid)
       /\ next_uid' = next_uid + 1
       /\ callers' = [callers EXCEPT ![c] =
                         [pc |-> "wait", op |-> op, name |-> name, task |-> task]]

\* task_add, first statement: task_blocking.wait() returns once the gate is set.
TaskAddWait(c) ==
    /\ callers[c].pc = "wait"
    /\ gate
    /\ callers' = [callers EXCEPT ![c].pc = "append"]
    /\ UNCHANGED <<now, queue, gate, snapshot, cache, cache_lifetime,
                   initialized, initializing, next_uid, published, removed,
                   cb_count, tcb_count, init_calls, timer_ok, ms, sent, otherState, ev>>

\* Where a caller goes once its task is queued: the accessor polls the queue,
\* the other operations return.
AfterQueued(c) ==
    IF callers[c].op \in {"properties", "property_get"}
    THEN /\ callers' = [callers EXCEPT ![c].pc = "poll"]
         /\ ev' = ev
    ELSE /\ callers' = [callers EXCEPT ![c] = Idle]
         /\ ev' = Ev(callers[c].op, c, "ok")

\* task_add, second statement: self._isc_queue.append(task).
TaskAddAppend(c) ==
    LET r == QueueAppend(queue, callers[c].task) IN
    /\ callers[c].pc = "append"
    /\ queue' = r.q
    /\ gate' = IF r.err = "" THEN GateOnAppend ELSE gate
    /\ AfterQueued(c)
    /\ UNCHANGED <<now, snapshot, cache, cache_lifetime, initialized,
                   initializing, next_uid, published, removed, cb_count,
                   tcb_count, init_calls, timer_ok, ms, sent, otherState>>

\* initialize(): the subscriptions succeed, then the initialization query.
Initialize(c) ==
    /\ callers[c].pc = "idle"
    /\ initializing' = TRUE
    /\ QueryProperties(c, "initialize", "", "property_get",
           [initialize |-> StrV(Tag), timeout |-> IntV(InitTimeout),
            timeout_callback |-> FnV("_init_fail")])
    /\ UNCHANGED <<now, queue, gate, snapshot, cache, cache_lifetime,
                   initialized, removed, cb_count, tcb_count, init_calls,
                   timer_ok, ms, sent, otherState, ev>>

\* _init_fail(task_meta)
InitFail ==
    /\ initialized' = FALSE
    /\ initializing' = FALSE
    /\ init_calls' = Append(init_calls, FALSE)

\* property_set(property_name, value)
PropertySet(c, name, value) ==
    /\ callers[c].pc = "idle"
    /\ QueryProperties(c, "property_set", name, "property_set",
                       [set |-> StrV(name)])
    /\ UNCHANGED <<now, queue, gate, snapshot, cache, cache_lifetime,
                   initialized, initializing, removed, cb_count, tcb_count,
                   init_calls, timer_ok, ms, sent, otherState, ev>>

\* What the caller of `properties` / property_get receives from a snapshot.
Returned(c, op, name, snap) ==
    IF op = "properties" THEN [Ev(op, c, "ok") EXCEPT !.snap = snap]
    ELSE IF snap.none THEN Ev(op, c, "AttributeError")
    ELSE [Ev(op, c, "ok") EXCEPT
             !.val = IF name \in DOMAIN snap.m THEN snap.m[name] ELSE NoneInt]

\* The `properties` accessor from its first line, on cache `ch` (the cache as
\* property_get left it), up to its return, its raise, or its wait loop.
Accessor(c, op, name, ch) ==
    IF StateNone
    THEN /\ ev' = Ev(op, c, "OSError")
         /\ cache' = ch
         /\ UNCHANGED <<snapshot, callers, next_uid, published>>
    ELSE IF Truthy(GetCached(ch, "all"))
    THEN /\ ev' = Returned(c, op, name, snapshot)
         /\ cache' = ch
         /\ UNCHANGED <<snapshot, callers, next_uid, published>>
    ELSE IF IsQueuedMeta(queue, "properties", StrV("all"))
    THEN /\ callers' = [callers EXCEPT ![c] =
                           [pc |-> "poll", op |-> op, name |-> name, task |-> NoTask]]
         /\ cache' = AfterGetCached(ch, "all")
         /\ UNCHANGED <<snapshot, next_uid, published, ev>>
    ELSE /\ snapshot' = [none |-> TRUE, m |-> EmptyMap]
         /\ cache' = AfterGetCached(ch, "all")
         /\ QueryProperties(c, op, name, "property_get", [properties |-> StrV("all")])
         /\ ev' = ev

\* The `properties` accessor.
Properties(c) ==
    /\ callers[c].pc = "idle"
    /\ Accessor(c, "properties", "", cache)
    /\ UNCHANGED <<now, queue, gate, cache_lifetime, initialized, initializing,
                   removed, cb_count, tcb_count, init_calls, timer_ok, ms, sent, otherState>>

\* property_get(property_name)
PropertyGet(c, name) ==
    /\ callers[c].pc = "idle"
    /\ IF Truthy(GetCached(cache, name))
       THEN /\ ev' = [Ev("property_get", c, "ok") EXCEPT !.val = GetCached(cache, name)]
            /\ UNCHANGED <<snapshot, cache, callers, next_uid, published>>
       ELSE Accessor(c, "property_get", name, AfterGetCached(cache, name))
    /\ UNCHANGED <<now, queue, gate, cache_lifetime, initialized, initializing,
                   removed, cb_count, tcb_count, init_calls, timer_ok, ms, sent, otherState>>

\* The wait loop of the accessor ends when no get-all task is queued.
PollReturn(c) ==
    /\ callers[c].pc = "poll"
    /\ ~IsQueuedMeta(queue, "properties", StrV("all"))
    /\ ev' = Returned(c, callers[c].op, callers[c].name, snapshot)
    /\ callers' = [callers EXCEPT ![c] = Idle]
    /\ UNCHANGED <<now, queue, gate, snapshot, cache, cache_lifetime,
                   initialized, initializing, next_uid, published, removed,
                   cb_count, tcb_count, init_calls, timer_ok, ms, sent, otherState>>

\* The snapshot after the loop over the response's properties.
Merged(base, props) ==
    [k \in DOMAIN base \cup DOMAIN props |->
        IF k \in DOMAIN props THEN props[k] ELSE base[k]]

\* A loop that re-caches every property of the response.
ChangedAll(base, props) == DOMAIN props

\* The properties the loop re-caches: new ones and those whose value differs.
Changed(base, props) ==
    {k \in DOMAIN props : k \notin DOMAIN base \/ base[k] # props[k]}

\* task_complete(task_meta)
TaskComplete == gate' = TRUE

\* An update_proxy_properties that treats the initialization response as any
\* other response.
UpdateWithoutInit(body, meta) ==
    IF ~IsMapping(body)
    THEN UNCHANGED <<snapshot, cache, initialized, initializing, gate, init_calls>>
    ELSE LET ttl == cache_lifetime
             cache_all == /\ "properties" \in DOMAIN meta
                          /\ meta["properties"] = StrV("all")
             base == IF snapshot.none THEN EmptyMap ELSE snapshot.m
             upd == [k \in DOMAIN cache \cup Changed(base, body) |->
                       IF k \in Changed(base, body)
                       THEN [value |-> body[k], cached_at |-> CachedAt(ttl),
                             ttl |-> ttl]
                       ELSE cache[k]]
         IN /\ UNCHANGED <<initialized, initializing, init_calls>>
            /\ snapshot' = [none |-> FALSE, m |-> Merged(base, body)]
            /\ cache' = IF cache_all THEN CachePut(upd, 1, "all", ttl) ELSE upd
            /\ TaskComplete

\* update_proxy_properties(message, task_meta)
UpdateProxyProperties(body, meta) ==
    IF ~IsMapping(body)
    THEN UNCHANGED <<snapshot, cache, initialized, initializing, gate, init_calls>>
    ELSE LET new_init == "initialize" \in DOMAIN meta
             ttl == IF "cache_lifetime" \in DOMAIN meta THEN NoneInt
                    ELSE cache_lifetime
             cache_all == \/ new_init
                          \/ /\ "properties" \in DOMAIN meta
                             /\ meta["properties"] = StrV("all")
             base == IF snapshot.none THEN EmptyMap ELSE snapshot.m
             upd == [k \in DOMAIN cache \cup Changed(base, body) |->
                       IF k \in Changed(base, body)
                       THEN [value |-> body[k], cached_at |-> CachedAt(ttl),
                             ttl |-> ttl]
                       ELSE cache[k]]
         IN /\ initialized' = (new_init \/ initialized)
            /\ initializing' = (new_init \/ initializing)
            /\ snapshot' = [none |-> FALSE, m |-> Merged(base, body)]
            /\ cache' = IF cache_all THEN CachePut(upd, 1, "all", ttl) ELSE upd
            /\ TaskComplete
            /\ init_calls' = IF new_init THEN Append(init_calls, TRUE)
                             ELSE init_calls

\* task_handle: the response is ignored and False returned.
Ignore(uid) ==
    /\ ev' = Ev("task_handle", uid, "False")
    /\ UNCHANGED <<now, queue, gate, snapshot, cache, cache_lifetime,
                   initialized, initializing, callers, next_uid, published,
                   removed, cb_count, tcb_count, init_calls, timer_ok, ms, sent, otherState>>

\* task_handle from self._isc_queue.get(task_id) on: the task is popped, its
\* metadata completed and its callback update_proxy_properties called.
Deliver(uid, body) ==
    LET r == TaskGet(queue, uid)
        meta == Put(Put(r.task.meta, "task_id", IntV(uid)),
                    "task_type", StrV(r.task.task_type))
    IN /\ queue' = r.q
       /\ removed' = removed \cup {uid}
       /\ cb_count' = [x \in Uids |-> IF x = uid THEN cb_count[x] + 1 ELSE cb_count[x]]
       /\ UpdateProxyProperties(body, meta)
       /\ ev' = [Ev("task_handle", uid, "True") EXCEPT !.meta = meta, !.body = body]
       /\ UNCHANGED <<now, cache_lifetime, callers, next_uid, published,
                      tcb_count, timer_ok, ms, sent, otherState>>

\* A task_handle that delivers every response that carries a uid.
TaskHandleUnchecked(uid, body) ==
    IF uid = 0 THEN Ignore(uid) ELSE Deliver(uid, body)

\* task_handle(response), run by the network-callback thread; `uid` 0 is a
\* response without uid (or with an empty one).
TaskHandle(uid, body) ==
    IF uid = 0 \/ ~IsQueued(queue, uid) THEN Ignore(uid) ELSE Deliver(uid, body)

\* The functions that the sweep called, applied to the proxy and the counters.
IsInitFail(call) == call.fn = "_init_fail"

\* The calls of the timeout_callback of task `u` among the calls made.
OwnCalls(calls, u) ==
    {i \in 1..Len(calls) : calls[i].uid = u /\ calls[i].fn = calls[i].cb}

ApplyTimeoutCalls(calls) ==
    /\ tcb_count' = [u \in Uids |-> tcb_count[u] + Cardinality(OwnCalls(calls, u))]
    /\ IF \E i \in 1..Len(calls) : IsInitFail(calls[i])
       THEN InitFail
       ELSE UNCHANGED <<initialized, initializing, init_calls>>

\* The outcome of a sweep: its exception, the number of calls it made and
\* the metadata it passed to the last one.
SweepEvent(r) ==
    [Ev("remove_expired", Len(r.calls), IF r.err = "" THEN "ok" ELSE r.err)
        EXCEPT !.meta = IF r.calls = <<>> THEN NoMeta
                        ELSE r.calls[Len(r.calls)].meta]

PoppedUids(popped) == {popped[i].uid : i \in 1..Len(popped)}

\* One firing of the expiry timer (RepeatingTimer.run): the target
\* remove_expired is called; an exception of the target is caught and leaves
\* the countdown at zero, so the loop does not fire again.
TimerExpiry ==
    LET r == RemoveExpired(queue) IN
    /\ timer_ok
    /\ queue' = r.q
    /\ removed' = removed \cup PoppedUids(r.popped)
    /\ gate' = IF r.popped # <<>> THEN GateOnExpiry ELSE gate
    /\ ApplyTimeoutCalls(r.calls)
    /\ timer_ok' = (r.err = "")
    /\ ev' = SweepEvent(r)
    /\ UNCHANGED <<now, snapshot, cache, cache_lifetime, callers, next_uid,
                   published, cb_count, ms, sent, otherState>>

\* The uids a response can carry: none, a published one, a foreign one.
ResponseUids == (0..(next_uid - 1)) \cup {StrayUid}

\* The step creates no task beyond the first MainUids.
WithinMain == next_uid' <= MainUids + 1

\* One caller thread, the network-callback thread and the timer thread.
Next ==
    \/ Tick
    \/ \E c \in MainCaller : Initialize(c) /\ WithinMain
    \/ \E c \in MainCaller, n \in PropNames, v \in Values :
          PropertySet(c, n, v) /\ WithinMain
    \/ \E c \in MainCaller : Properties(c) /\ WithinMain
    \/ \E c \in MainCaller, n \in PropNames : PropertyGet(c, n) /\ WithinMain
    \/ \E c \in MainCaller : TaskAddWait(c)
    \/ \E c \in MainCaller : TaskAddAppend(c)
    \/ \E c \in MainCaller : PollReturn(c)
    \/ \E u \in ResponseUids, b \in Payloads : TaskHandle(u, b)
    \/ TimerExpiry

Spec == Init /\ [][Next]_vars

\* The same with the scheduling the threads guarantee: the timer thread keeps
\* running its loop, the clock keeps advancing and a caller inside task_add
\* goes on.
InTaskAdd == \E c \in MainCaller : TaskAddWait(c) \/ TaskAddAppend(c)

SpecFair == Spec /\ WF_vars(TimerExpiry) /\ WF_vars(Tick) /\ WF_vars(InTaskAdd)

\* Two caller threads that issue queries, the network-callback thread and the
\* timer thread.
NextMT ==
    \/ Tick
    \/ \E c \in Callers : Initialize(c) /\ WithinMain
    \/ \E c \in Callers, v \in Values : PropertySet(c, "p", v) /\ WithinMain
    \/ \E c \in Callers : TaskAddWait(c)
    \/ \E c \in Callers : TaskAddAppend(c)
    \/ \E u \in ResponseUids, b \in {NoBody, [k \in {"p"} |-> 1]} : TaskHandle(u, b)
    \/ TimerExpiry

\* The proxy as constructed without a cache_lifetime keyword.
InitMT == Init /\ cache_lifetime = NoneInt

SpecMT == InitMT /\ [][NextMT]_vars

\* The clock advances by more than the default lifetime of a task.
Leap ==
    /\ now <= MaxTime
    /\ now' = now + DefaultLifetime + 1
    /\ UNCHANGED <<queue, gate, snapshot, cache, cache_lifetime, initialized,
                   initializing, callers, next_uid, published, removed,
                   cb_count, tcb_count, init_calls, timer_ok, ms, sent, otherState, ev>>

\* The proxy over a time long enough for its get-all queries to expire; every
\* response carries a properties mapping.
NextLate ==
    \/ Tick
    \/ Leap
    \/ \E c \in MainCaller : Initialize(c) /\ WithinMain
    \/ \E c \in MainCaller : Properties(c) /\ WithinMain
    \/ \E c \in MainCaller : TaskAddWait(c)
    \/ \E c \in MainCaller : TaskAddAppend(c)
    \/ \E c \in MainCaller : PollReturn(c)
    \/ \E u \in ResponseUids, b \in Payloads \ {NoBody} : TaskHandle(u, b)
    \/ TimerExpiry

SpecLate == Init /\ [][NextLate]_vars

\* The same with the scheduling the threads guarantee: the timer thread keeps
\* running its loop and the clock keeps advancing.
SpecLateFair == SpecLate /\ WF_vars(TimerExpiry) /\ WF_vars(Tick)

\* The responses of a remote that holds property p only.
SetPayloads == {m \in Maps : DOMAIN m \subseteq {"p"}}

\* The proxy initialized, then property p set and read: one caller thread,
\* the network-callback thread and the timer thread.
NextSet ==
    \/ Tick
    \/ \E c \in MainCaller : Initialize(c)
    \/ \E c \in MainCaller, v \in Values : PropertySet(c, "p", v)
    \/ \E c \in MainCaller : PropertyGet(c, "p")
    \/ \E c \in MainCaller : TaskAddWait(c)
    \/ \E c \in MainCaller : TaskAddAppend(c)
    \/ \E c \in MainCaller : PollReturn(c)
    \/ \E u \in ResponseUids \ {StrayUid}, b \in SetPayloads : TaskHandle(u, b)
    \/ TimerExpiry

SpecSet == Init /\ [][NextSet]_vars

\* The values a caller can pass as `properties` to query_properties: None, a
\* list, a dict (empty or not), anything else (a string, a number).
NoneArg == [k |-> "none"]
ListArg == [k |-> "list"]
OtherArg == [k |-> "other"]
DictArg(m) == [k |-> "dict", m |-> m]
QueryArgs == {NoneArg, ListArg, OtherArg, DictArg(EmptyMap), DictArg([x \in {"p"} |-> 1])}

\* The checks at the head of query_properties without the test for an empty
\* dictionary.
ValidateAnyDict(properties) ==
    IF properties.k \notin {"none", "list", "dict"} THEN "ValueError"
    ELSE IF properties.k = "dict" THEN "property_set"
    ELSE "property_get"

\* The checks at the head of query_properties (publish is callable): the
\* exception raised, or else the query's method.
Validate(properties) ==
    IF properties.k \notin {"none", "list", "dict"} THEN "ValueError"
    ELSE IF properties.k = "dict"
         THEN (IF properties.m = EmptyMap THEN "ValueError" ELSE "property_set")
    ELSE "property_get"

\* query_properties(properties, task_meta={}) called directly.
QueryCall(c, properties) ==
    /\ callers[c].pc = "idle"
    /\ IF Validate(properties) = "ValueError"
       THEN /\ ev' = Ev("query_properties", c, "ValueError")
            /\ UNCHANGED <<callers, next_uid, published>>
       ELSE /\ QueryProperties(c, "query_properties", "", Validate(properties), NoMeta)
            /\ ev' = ev
    /\ UNCHANGED <<now, queue, gate, snapshot, cache, cache_lifetime,
                   initialized, initializing, removed, cb_count, tcb_count,
                   init_calls, timer_ok, ms, sent, otherState>>

\* query_properties called with every kind of argument, the responses and
\* the timer.
NextQuery ==
    \/ Tick
    \/ \E c \in MainCaller, a \in QueryArgs : QueryCall(c, a)
    \/ \E c \in MainCaller : TaskAddWait(c)
    \/ \E c \in MainCaller : TaskAddAppend(c)
    \/ \E u \in ResponseUids, b \in SetPayloads \cup {NoBody} : TaskHandle(u, b)
    \/ TimerExpiry

SpecQuery == Init /\ [][NextQuery]_vars

\* query_properties(properties) with task_meta and query_meta left at their
\* default None: after the checks, task_meta.get('timeout', 10) is evaluated
\* on None and raises AttributeError before the task is built or published.
QueryDefault(c, properties) ==
    /\ callers[c].pc = "idle"
    /\ ev' = Ev("query_properties", c,
                IF Validate(properties) = "ValueError" THEN "ValueError"
                ELSE "AttributeError")
    /\ UNCHANGED <<now, queue, gate, snapshot, cache, cache_lifetime,
                   initialized, initializing, callers, next_uid, published,
                   removed, cb_count, tcb_count, init_calls, timer_ok, ms,
                   sent, otherState>>

\* query_properties called with and without a task_meta, the responses and
\* the timer.
NextDefault ==
    \/ Tick
    \/ \E c \in MainCaller, a \in QueryArgs : QueryDefault(c, a)
    \/ \E c \in MainCaller, a \in QueryArgs : QueryCall(c, a)
    \/ \E c \in MainCaller : TaskAddWait(c)
    \/ \E c \in MainCaller : TaskAddAppend(c)
    \/ \E u \in ResponseUids, b \in SetPayloads \cup {NoBody} : TaskHandle(u, b)
    \/ TimerExpiry

SpecDefault == Init /\ [][NextDefault]_vars

\* A proxy constructed with or without the publish keyword.
InitTransport ==
    /\ ProxyInit
    /\ ms = NewService(StrV(TestTag), FALSE)
    /\ sent = <<>>
    /\ conv = NoConv
    /\ subs = NewSubscriptionProxy
    /\ store = NewMessageStore
    /\ cm = NewConnectionManager
    /\ rt = NewRepeatingTimer
    /\ qos = NewQosMetricsManager
    /\ publish_callable \in BOOLEAN
    /\ net = NetIdle

\* initialize() as a whole; `subscribed` is what self._subscribe returned.
\* A refused subscription raises before anything is assigned; otherwise
\* self._initializing = True precedes query_properties, which raises when
\* self._publish is not callable.
InitializeCall(c, subscribed) ==
    IF subscribed /\ publish_callable THEN Initialize(c)
    ELSE /\ callers[c].pc = "idle"
         /\ initializing' = (subscribed \/ initializing)
         /\ ev' = Ev("initialize", c, "ValueError")
         /\ UNCHANGED <<now, queue, gate, snapshot, cache, cache_lifetime,
                        initialized, callers, next_uid, published, removed,
                        cb_count, tcb_count, init_calls, timer_ok, ms, sent,
                        otherState>>

\* The `properties` accessor of a proxy whose publish may be missing: its
\* query_properties(['all'], task_meta) then raises, after the snapshot was
\* reset.
PropertiesCall(c) ==
    IF \/ publish_callable
       \/ StateNone
       \/ Truthy(GetCached(cache, "all"))
       \/ IsQueuedMeta(queue, "properties", StrV("all"))
    THEN Properties(c)
    ELSE /\ callers[c].pc = "idle"
         /\ snapshot' = [none |-> TRUE, m |-> EmptyMap]
         /\ cache' = AfterGetCached(cache, "all")
         /\ ev' = Ev("properties", c, "ValueError")
         /\ UNCHANGED <<now, queue, gate, cache_lifetime, initialized,
                        initializing, callers, next_uid, published, removed,
                        cb_count, tcb_count, init_calls, timer_ok, ms, sent,
                        otherState>>

\* initialize() with its failures, the accessor, the responses and the timer.
NextTransport ==
    \/ Tick
    \/ \E c \in MainCaller, subscribed \in BOOLEAN :
          InitializeCall(c, subscribed) /\ WithinMain
    \/ \E c \in MainCaller : PropertiesCall(c) /\ WithinMain
    \/ \E c \in MainCaller : TaskAddWait(c)
    \/ \E c \in MainCaller : TaskAddAppend(c)
    \/ \E c \in MainCaller : PollReturn(c)
    \/ \E u \in ResponseUids, b \in Payloads : TaskHandle(u, b)
    \/ TimerExpiry

SpecTransport == InitTransport /\ [][NextTransport]_vars

\* The components beside the proxy, the microservice and the network thread.
nonNet == <<conv, subs, store, cm, rt, qos, publish_callable>>

\* task_handle up to its test `not task_id or not is_queued(task_id)`: the
\* response is ignored, or the thread goes on to self._isc_queue.get.
TaskHandleCheck(uid, body) ==
    /\ net.pc = "idle"
    /\ IF uid = 0 \/ ~IsQueued(queue, uid)
       THEN Ignore(uid)
       ELSE /\ net' = [pc |-> "get", uid |-> uid, body |-> body]
            /\ UNCHANGED <<now, queue, gate, snapshot, cache, cache_lifetime,
                           initialized, initializing, callers, next_uid,
                           published, removed, cb_count, tcb_count, init_calls,
                           timer_ok, ms, sent, nonNet, ev>>

\* task_handle from task = self._isc_queue.get(task_id) on.  The queue has no
\* lock: when the sweep popped the task since the test, get returns None and
\* task.task_meta raises AttributeError; else the task is popped and its
\* callback update_proxy_properties called.
TaskHandleGet ==
    LET uid == net.uid
        r == TaskGet(queue, uid)
        meta == Put(Put(r.task.meta, "task_id", IntV(uid)),
                    "task_type", StrV(r.task.task_type))
    IN /\ net.pc = "get"
       /\ net' = NetIdle
       /\ IF IsQueued(queue, uid)
          THEN /\ queue' = r.q
               /\ removed' = removed \cup {uid}
               /\ cb_count' = [x \in Uids |->
                                  IF x = uid THEN cb_count[x] + 1 ELSE cb_count[x]]
               /\ UpdateProxyProperties(net.body, meta)
               /\ ev' = [Ev("task_handle", uid, "True") EXCEPT
                            !.meta = meta, !.body = net.body]
          ELSE /\ ev' = Ev("task_handle", uid, "AttributeError")
               /\ UNCHANGED <<queue, removed, cb_count, snapshot, cache,
                              initialized, initializing, gate, init_calls>>
       /\ UNCHANGED <<now, cache_lifetime, callers, next_uid, published,
                      tcb_count, timer_ok, ms, sent, nonNet>>

\* One caller thread, the network-callback thread inside task_handle and the
\* timer thread.
NextRace ==
    \/ Tick
    \/ \E c \in MainCaller : Initialize(c) /\ WithinMain
    \/ \E c \in MainCaller, v \in Values : PropertySet(c, "p", v) /\ WithinMain
    \/ \E c \in MainCaller : TaskAddWait(c)
    \/ \E c \in MainCaller : TaskAddAppend(c)
    \/ \E u \in ResponseUids, b \in {NoBody, [k \in {"p"} |-> 1]} :
          TaskHandleCheck(u, b)
    \/ TaskHandleGet
    \/ TimerExpiry

SpecRace == Init /\ [][NextRace]_vars

\* ------------------------------------------ the task queue used directly
\* The metadata of the tasks of the queue's tests: none, and the fixture's
\* (with a timeout_callback).
QueueMetas ==
    {NoMeta,
     [test |-> StrV("test"), timeout_callback |-> FnV("isc_task_timeout")]}
QueueUids == {1, 2}
QueueItems ==
    {NotATask} \cup
    {IscTask(u, "test", m, l) : u \in QueueUids, m \in QueueMetas,
                                l \in {NoneInt, ShortLifetime}}

\* task_queue.append(item)
QAppend(item) ==
    LET r == QueueAppend(queue, item) IN
    /\ Len(queue) < MaxQueue
    /\ queue' = r.q
    /\ ev' = Ev("append", IF IsTask(item) THEN item.uid ELSE 0,
                IF r.err = "" THEN "ok" ELSE r.err)
    /\ UNCHANGED <<now, gate, snapshot, cache, cache_lifetime, initialized,
                   initializing, callers, next_uid, published, removed,
                   cb_count, tcb_count, init_calls, timer_ok, ms, sent, otherState>>

\* task_queue.insert(index, element)
QInsert(index, element) ==
    LET r == QueueInsert(queue, index, element) IN
    /\ queue' = r.q
    /\ ev' = Ev("insert", index, r.err)
    /\ UNCHANGED <<now, gate, snapshot, cache, cache_lifetime, initialized,
                   initializing, callers, next_uid, published, removed,
                   cb_count, tcb_count, init_calls, timer_ok, ms, sent, otherState>>

\* task_queue.task_get(task_id)
QTaskGet(task_id) ==
    LET r == TaskGet(queue, task_id) IN
    /\ queue' = r.q
    /\ removed' = IF r.task # NoTask THEN removed \cup {task_id} ELSE removed
    /\ ev' = Ev("task_get", task_id, IF r.task # NoTask THEN "task" ELSE "None")
    /\ UNCHANGED <<now, gate, snapshot, cache, cache_lifetime, initialized,
                   initializing, callers, next_uid, published, cb_count,
                   tcb_count, init_calls, timer_ok, ms, sent, otherState>>

\* task_queue.remove_expired(), called by the owner of the queue.
QRemoveExpired ==
    LET r == RemoveExpired(queue) IN
    /\ queue' = r.q
    /\ removed' = removed \cup PoppedUids(r.popped)
    /\ ApplyTimeoutCalls(r.calls)
    /\ ev' = SweepEvent(r)
    /\ UNCHANGED <<now, gate, snapshot, cache, cache_lifetime, callers,
                   next_uid, published, cb_count, timer_ok, ms, sent, otherState>>

NextQueue ==
    \/ Tick
    \/ \E item \in QueueItems : QAppend(item)
    \/ \E i \in 0..MaxQueue, item \in QueueItems : QInsert(i, item)
    \/ \E u \in QueueUids : QTaskGet(u)
    \/ QRemoveExpired

SpecQueue == InitMT /\ [][NextQueue]_vars

\* ------------------------- FieldedgeMicroservice (isc.py): operations
\* The state of the proxy, which the microservice's own operations leave alone.
proxyState == <<queue, gate, snapshot, cache, cache_lifetime, initialized,
                initializing, callers, published, removed, cb_count,
                tcb_count, init_calls, timer_ok>>

InitMS ==
    /\ ProxyInit
    /\ cache_lifetime = NoneInt
    /\ OtherInit
    /\ ms \in {NewService(StrV(TestTag), FALSE), NewService(StrV(TestTag), TRUE),
               NewService(NoneV, FALSE)}
    /\ sent = <<>>

\* The local MQTT client reaches or loses the broker (is_connected).
MsConnect ==
    /\ ~ms.connected
    /\ ms' = [ms EXCEPT !.connected = TRUE]
    /\ UNCHANGED <<now, next_uid, sent, ev, proxyState, otherState>>

MsDisconnect ==
    /\ ms.connected
    /\ ms' = [ms EXCEPT !.connected = FALSE]
    /\ UNCHANGED <<now, next_uid, sent, ev, proxyState, otherState>>

\* notify(message, subtopic=...): the messages published after the call.
\* The timestamp goes into json_message; publish is given `message`.
NotifySent(s, message, subtopic, out) ==
    LET topic == s.default_publish_topic \o subtopic
        json_message == json_compatible(message)
        stamped == IF TsKey \in DOMAIN json_message THEN json_message
                   ELSE Put(json_message, TsKey, IntV(now * 1000))
    IN IF ~s.connected THEN out
       ELSE Append(out, [topic |-> topic, message |-> message])

\* The messages an application passes to notify, and their subtopics.
NotifyMessages ==
    {NoMessage, [k \in {TsKey} |-> IntV(1)], [k \in {SubProp} |-> StrV("test")]}
NotifySubtopics == {<<>>, <<"event">>}

Notify(message, subtopic) ==
    /\ Len(sent) < MaxSent
    /\ sent' = NotifySent(ms, message, subtopic, sent)
    /\ ev' = Ev("notify", 0, IF ms.connected THEN "published" ELSE "not connected")
    /\ UNCHANGED <<now, next_uid, ms, proxyState, otherState>>

\* rollcall(): a broadcast with a fresh uid on the subtopic rollcall.  A uid
\* that is not published is seen by nobody and is not counted.
Rollcall ==
    /\ next_uid <= MaxUid
    /\ Len(sent) < MaxSent
    /\ sent' = NotifySent(ms, [k \in {UidKey} |-> UuidV(next_uid)],
                          <<"rollcall">>, sent)
    /\ next_uid' = IF ms.connected THEN next_uid + 1 ELSE next_uid
    /\ ev' = Ev("rollcall", 0, "")
    /\ UNCHANGED <<now, ms, proxyState, otherState>>

\* The loop of rollcall_respond over the rollcall list.
RECURSIVE RespondLoop(_, _, _)
RespondLoop(s, props, response) ==
    IF props = <<>> THEN response
    ELSE LET prop == Head(props)
             tag == IF s.isc_tags THEN StrV(s.tag) ELSE NoneV
         IN RespondLoop(s, Tail(props),
                IF prop \in MsProperties(s)
                THEN Put(response, tag_class_property(prop, tag), s.values[prop])
                ELSE response)

\* The same loop without the test `prop in self.properties`.
RECURSIVE RespondLoopAll(_, _, _)
RespondLoopAll(s, props, response) ==
    IF props = <<>> THEN response
    ELSE LET prop == Head(props)
             tag == IF s.isc_tags THEN StrV(s.tag) ELSE NoneV
         IN RespondLoopAll(s, Tail(props),
                Put(response, tag_class_property(prop, tag), s.values[prop]))

\* rollcall_respond(request) with that loop.
RollcallRespondAll(s, request, out) ==
    LET uid == IF UidKey \in DOMAIN request THEN request[UidKey] ELSE NoneV
        response == RespondLoopAll(s, s.rollcall_properties,
                                   [k \in {UidKey} |-> uid])
    IN NotifySent(s, response, <<"rollcall", "response">>, out)

\* rollcall_respond(request).
RollcallRespond(s, request, out) ==
    LET uid == IF UidKey \in DOMAIN request THEN request[UidKey] ELSE NoneV
        response == RespondLoop(s, s.rollcall_properties,
                                [k \in {UidKey} |-> uid])
    IN NotifySent(s, response, <<"rollcall", "response">>, out)

\* rollcall_receive(topic, message).
RollcallReceive(s, topic, message, out) ==
    IF HasLevel(topic, s.tag) THEN out
    ELSE RollcallRespond(s, message, out)

\* The default subscriptions: fieldedge/+/rollcall/# and
\* fieldedge/{tag}/request/#.
Subscribed(s, topic) ==
    /\ Len(topic) >= 3
    /\ topic[1] = "fieldedge"
    /\ \/ topic[3] = "rollcall"
       \/ topic[2] = s.default_publish_topic[2] /\ topic[3] = "request"

\* What the broker delivers: the microservice's own publications that match
\* a subscription, and the rollcalls and responses of the others.
OwnDeliveries == {sent[i] : i \in {k \in 1..Len(sent) : Subscribed(ms, sent[k].topic)}}
RollcallRequests == {NoMessage, [k \in {UidKey} |-> UuidV(StrayUid)]}
ForeignDeliveries ==
    {[topic |-> <<"fieldedge", o>> \o sub, message |-> m] :
        o \in OtherTags \cup {ms.tag},
        sub \in {<<"rollcall">>, <<"rollcall", "response">>},
        m \in RollcallRequests}
Deliveries == OwnDeliveries \cup ForeignDeliveries

\* _on_isc_message(topic, message), called by the connected MQTT client
\* with a delivery d.
OnIscMessage(d) ==
    LET topic == d.topic
        message == d.message
        out == IF EndsWithRollcall(topic)
               THEN RollcallReceive(ms, topic, message, sent)
               ELSE sent
    IN /\ ms.connected
       /\ Len(sent) <= MaxSent
       /\ sent' = out
       /\ ev' = Ev("on_isc_message", 0,
                   IF out # sent THEN "responded" ELSE "no response")
       /\ UNCHANGED <<now, next_uid, ms, proxyState, otherState>>

\* add_rollcall_property(prop_name).
AddRollcallProperty(prop) ==
    /\ IF prop \notin MsProperties(ms)
       THEN /\ ev' = Ev("add_rollcall_property", 0, "ValueError")
            /\ ms' = ms
       ELSE /\ ev' = ev
            /\ ms' = IF InList(prop, ms.rollcall_properties) THEN ms
                     ELSE [ms EXCEPT !.rollcall_properties = Append(@, prop)]
    /\ UNCHANGED <<now, next_uid, sent, proxyState, otherState>>

\* del_rollcall_property(prop_name).
DelRollcallProperty(prop) ==
    /\ ms' = IF InList(prop, ms.rollcall_properties)
             THEN [ms EXCEPT !.rollcall_properties = ListRemove(@, prop)]
             ELSE ms
    /\ UNCHANGED <<now, next_uid, sent, ev, proxyState, otherState>>

\* hide_property(prop_name): the service afterwards, and the exception.
hide_property(s, prop) ==
    IF prop \notin MsProperties(s) THEN [err |-> "ValueError", ms |-> s]
    ELSE [err |-> "",
          ms |-> IF InList(prop, s.hide) THEN s
                 ELSE [s EXCEPT !.hide = Append(@, prop)]]

HideProperty(prop) ==
    LET r == hide_property(ms, prop) IN
    /\ ms' = r.ms
    /\ ev' = IF r.err = "" THEN ev ELSE Ev("hide_property", 0, r.err)
    /\ UNCHANGED <<now, next_uid, sent, proxyState, otherState>>

\* An unhide that empties the hidden list.
unhide_all(s, prop) == [s EXCEPT !.hide = <<>>]

\* unhide_property(prop_name).
unhide_property(s, prop) ==
    IF InList(prop, s.hide)
    THEN [s EXCEPT !.hide = ListRemove(@, prop)]
    ELSE s

UnhideProperty(prop) ==
    /\ ms' = unhide_property(ms, prop)
    /\ UNCHANGED <<now, next_uid, sent, ev, proxyState, otherState>>

NextMS ==
    \/ MsConnect
    \/ MsDisconnect
    \/ Rollcall
    \/ \E d \in Deliveries : OnIscMessage(d)
    \/ \E p \in MsProps : AddRollcallProperty(p)
    \/ \E p \in MsProps : DelRollcallProperty(p)
    \/ \E p \in {LogLevel} : HideProperty(p)
    \/ \E p \in {LogLevel} : UnhideProperty(p)

SpecMS == InitMS /\ [][NextMS]_vars

\* An application that publishes its own messages.
NextNotify ==
    \/ Tick
    \/ MsConnect
    \/ MsDisconnect
    \/ \E m \in NotifyMessages, sub \in NotifySubtopics : Notify(m, sub)
    \/ Rollcall

SpecNotify == InitMS /\ [][NextNotify]_vars

\* cache_property(cache_tag, cache_lifetime).
CacheProperty(cache_tag, lifetime) ==
    /\ ms' = [ms EXCEPT !.property_cache =
                 Put(@, cache_tag, [cache_time |-> now, cache_lifetime |-> lifetime])]
    /\ ev' = Ev("cache_property", 0, "")
    /\ UNCHANGED <<now, next_uid, sent, proxyState, otherState>>

\* The outcome of cache_valid(cache_tag): comparing a number with None raises.
CacheValidResult(s, cache_tag) ==
    IF cache_tag \notin DOMAIN s.property_cache THEN "False"
    ELSE LET e == s.property_cache[cache_tag]
         IN IF e.cache_lifetime = NoneInt THEN "TypeError"
            ELSE IF now - e.cache_time < e.cache_lifetime THEN "True"
            ELSE "False"

\* cache_valid(cache_tag): an expired entry is removed.
CacheValid(cache_tag) ==
    LET res == CacheValidResult(ms, cache_tag) IN
    /\ ev' = Ev("cache_valid", 0, res)
    /\ ms' = IF res = "False" /\ cache_tag \in DOMAIN ms.property_cache
             THEN [ms EXCEPT !.property_cache = Drop(@, cache_tag)]
             ELSE ms
    /\ UNCHANGED <<now, next_uid, sent, proxyState, otherState>>

CacheTags == {"sub_prop", "proxy"}
Lifetimes == {NoneInt, 0, 1, DefaultCacheLifetime}

NextCache ==
    \/ Tick
    \/ \E t \in CacheTags, l \in Lifetimes : CacheProperty(t, l)
    \/ \E t \in CacheTags : CacheValid(t)

SpecCache == InitMS /\ [][NextCache]_vars

\* --------------- FieldedgeMicroservice (isc.py): properties over ISC
\* dir(self) lists the names in alphabetical order.
DirOrder == <<LogLevel, SubProp>>

\* get_class_properties(self, ignore): the public names not to be ignored.
get_class_properties(ignore) ==
    LET Kept(prop) == ~InList(prop, ignore) IN SelectSeq(DirOrder, Kept)

\* The property `properties` as the list it is.
PropertyList(s) == get_class_properties(s.hide)

\* The property `isc_properties`: tag_class_properties(self,
\* auto_tag=self._isc_tags, ignore=self._hide + self._isc_ignore); the
\* automatic tag is the class tag.
isc_properties(s) ==
    LET tag == IF s.isc_tags THEN StrV(ClassTag) ELSE NoneV
        class_props == get_class_properties(s.hide \o s.isc_ignore)
    IN [i \in 1..Len(class_props) |-> tag_class_property(class_props[i], tag)]

\* camel_to_snake: an underscore before every capital, then lower case.
camel_to_snake(camel) == [i \in 1..Len(camel) |-> Lower(camel[i])]

\* untag_class_property(property_name), is_tagged=True: the first word is
\* taken for the tag.
untag_class_property(name) ==
    LET snake == camel_to_snake(name) IN
    IF Len(snake) = 1 THEN [err |-> "ValueError", prop |-> <<>>]
    ELSE [err |-> "", prop |-> Tail(snake)]

\* isc_ignore_property(prop_name) that puts the name on the hidden list.
isc_ignore_as_hide(s, prop) ==
    IF prop \notin MsProperties(s) THEN [err |-> "ValueError", ms |-> s]
    ELSE [err |-> "", ms |-> [s EXCEPT !.hide = Append(@, prop)]]

\* isc_ignore_property(prop_name).
isc_ignore_property(s, prop) ==
    IF prop \notin MsProperties(s) THEN [err |-> "ValueError", ms |-> s]
    ELSE [err |-> "",
          ms |-> IF InList(prop, s.isc_ignore) THEN s
                 ELSE [s EXCEPT !.isc_ignore = Append(@, prop)]]

IscIgnoreProperty(prop) ==
    LET r == isc_ignore_property(ms, prop) IN
    /\ ms' = r.ms
    /\ ev' = Ev("isc_ignore_property", 0, r.err)
    /\ UNCHANGED <<now, next_uid, sent, proxyState, otherState>>

\* isc_unignore_property(prop_name).
isc_unignore_property(s, prop) ==
    IF InList(prop, s.isc_ignore)
    THEN [s EXCEPT !.isc_ignore = ListRemove(@, prop)]
    ELSE s

IscUnignoreProperty(prop) ==
    /\ ms' = isc_unignore_property(ms, prop)
    /\ ev' = Ev("isc_unignore_property", 0, "")
    /\ UNCHANGED <<now, next_uid, sent, proxyState, otherState>>

\* get_prop_from_isc(isc_prop): the exception, or the value returned.
get_prop_from_isc(s, isc_prop) ==
    LET target == untag_class_property(isc_prop) IN
    IF target.err # "" THEN [err |-> target.err, value |-> NoneV]
    ELSE IF target.prop \notin MsProperties(s)
    THEN [err |-> "AttributeError", value |-> NoneV]
    ELSE [err |-> "", value |-> s.values[target.prop]]

GetPropFromIsc(isc_prop) ==
    /\ ev' = Ev("get_prop_from_isc", 0, get_prop_from_isc(ms, isc_prop).err)
    /\ UNCHANGED <<now, next_uid, sent, ms, proxyState, otherState>>

\* set_prop_from_isc(isc_prop, value): properties_by_type passes
\* categorize=True to get_class_properties, which has no such parameter.
set_prop_from_isc(s, isc_prop, value) ==
    LET target == untag_class_property(isc_prop) IN
    IF target.err # "" THEN [err |-> target.err, ms |-> s]
    ELSE IF target.prop \notin MsProperties(s)
    THEN [err |-> "AttributeError", ms |-> s]
    ELSE [err |-> "TypeError", ms |-> s]

SetPropFromIsc(isc_prop, value) ==
    LET r == set_prop_from_isc(ms, isc_prop, value) IN
    /\ ms' = r.ms
    /\ ev' = Ev("set_prop_from_isc", 0, r.err)
    /\ UNCHANGED <<now, next_uid, sent, proxyState, otherState>>

\* The wire names a caller asks for: every property plain, with the class
\* tag and with the service tag, and a name of one word.
WireNames ==
    {tag_class_property(p, t) :
        p \in MsProps, t \in {NoneV, StrV(ClassTag), StrV(TestTag)}}
    \cup {<<"tag">>}
NewValues == {StrV("DEBUG")}

NextProps ==
    \/ \E p \in MsProps : HideProperty(p)
    \/ \E p \in MsProps : UnhideProperty(p)
    \/ \E p \in MsProps : IscIgnoreProperty(p)
    \/ \E p \in MsProps : IscUnignoreProperty(p)
    \/ \E w \in WireNames : GetPropFromIsc(w)
    \/ \E w \in WireNames, v \in NewValues : SetPropFromIsc(w, v)

SpecProps == InitMS /\ [][NextProps]_vars

\* ------------------- property names (microservice/properties.py)
\* Strings are sequences of characters; one lower-case letter, one upper-case
\* letter, one digit and the underscore stand for their classes.
Chars == {"a", "A", "1", "_"}
Strings(n) == UNION {[1..k -> Chars] : k \in 1..n}

IsLetter(c) == c \in {"a", "A"}
IsUpper(c) == c = "A"
LowerChar(c) == IF c = "A" THEN "a" ELSE c
UpperChar(c) == IF c = "a" THEN "A" ELSE c

\* str.lower()
StrLower(w) == [i \in 1..Len(w) |-> LowerChar(w[i])]

\* A title that keeps every character as it is.
StrTitleKeep(w) == w

\* str.title(): a letter after a non-letter is upper case, any other letter
\* lower case.
StrTitle(w) ==
    [i \in 1..Len(w) |->
        IF ~IsLetter(w[i]) THEN w[i]
        ELSE IF i = 1 \/ ~IsLetter(w[i - 1]) THEN UpperChar(w[i])
        ELSE LowerChar(w[i])]

HasChar(w, c) == \E i \in 1..Len(w) : w[i] = c
FirstChar(w, c) == CHOOSE i \in 1..Len(w) : w[i] = c /\ \A j \in 1..(i - 1) : w[j] # c

\* str.split('_')
RECURSIVE StrSplit(_)
StrSplit(w) ==
    IF ~HasChar(w, "_") THEN <<w>>
    ELSE LET i == FirstChar(w, "_")
         IN <<SubSeq(w, 1, i - 1)>> \o StrSplit(SubSeq(w, i + 1, Len(w)))

HasDouble(w) == \E i \in 1..(Len(w) - 1) : w[i] = "_" /\ w[i + 1] = "_"
FirstDouble(w) ==
    CHOOSE i \in 1..(Len(w) - 1) :
        /\ w[i] = "_" /\ w[i + 1] = "_"
        /\ \A j \in 1..(i - 1) : ~(w[j] = "_" /\ w[j + 1] = "_")

\* str.split('__')
RECURSIVE SplitDouble(_)
SplitDouble(w) ==
    IF ~HasDouble(w) THEN <<w>>
    ELSE LET i == FirstDouble(w)
         IN <<SubSeq(w, 1, i - 1)>> \o SplitDouble(SubSeq(w, i + 2, Len(w)))

\* ''.join(words)
RECURSIVE StrConcat(_)
StrConcat(words) ==
    IF words = <<>> THEN <<>> ELSE Head(words) \o StrConcat(Tail(words))

\* '_'.join(words)
RECURSIVE StrJoin(_)
StrJoin(words) ==
    IF Len(words) = 1 THEN words[1]
    ELSE words[1] \o <<"_">> \o StrJoin(Tail(words))

\* word.replace("_", "")
StrStrip(w) == SelectSeq(w, LAMBDA c : c # "_")

\* re.compile(r'(?<!^)(?=[A-Z])').sub('_', camel_str): an underscore before
\* every upper-case letter that is not the first character.
SubCapitals(w) ==
    StrConcat([i \in 1..Len(w) |->
        IF i > 1 /\ IsUpper(w[i]) THEN <<"_", w[i]>> ELSE <<w[i]>>])

\* camel_to_snake(camel_str), skip_caps False; [err, str].
camel_to_snake_str(camel_str) ==
    IF camel_str = <<>> THEN [err |-> "ValueError", str |-> <<>>]
    ELSE LET snake_str == StrLower(SubCapitals(camel_str))
         IN [err |-> "",
             str |-> IF HasDouble(snake_str)
                     THEN LET words == SplitDouble(snake_str)
                          IN StrJoin([i \in 1..Len(words) |-> StrStrip(words[i])])
                     ELSE snake_str]

\* snake_to_camel(snake_str), skip_caps False; [err, str].
snake_to_camel_str(snake_str) ==
    IF snake_str = <<>> THEN [err |-> "ValueError", str |-> <<>>]
    ELSE LET words == StrSplit(snake_str)
         IN [err |-> "",
             str |-> IF Len(words) = 1 THEN snake_str
                     ELSE StrLower(words[1]) \o
                          StrConcat([i \in 1..(Len(words) - 1) |->
                                        StrTitle(words[i + 1])])]

\* tag_class_property(prop, tag), json True.
tag_class_property_str(prop, tag) ==
    snake_to_camel_str(StrLower(tag) \o <<"_">> \o prop)

\* An untagging that returns the two parts the other way round.
untag_swapped(property_name) ==
    LET r == camel_to_snake_str(property_name)
    IN IF r.err # "" \/ ~HasChar(r.str, "_")
       THEN [err |-> "ValueError", prop |-> <<>>, tag |-> <<>>]
       ELSE LET i == FirstChar(r.str, "_")
            IN [err |-> "", prop |-> SubSeq(r.str, 1, i - 1),
                tag |-> SubSeq(r.str, i + 1, Len(r.str))]

\* untag_class_property(property_name, is_tagged=True, include_tag=True);
\* [err, prop, tag].
untag_class_property_str(property_name) ==
    LET r == camel_to_snake_str(property_name)
    IN IF r.err # "" \/ ~HasChar(r.str, "_")
       THEN [err |-> "ValueError", prop |-> <<>>, tag |-> <<>>]
       ELSE LET i == FirstChar(r.str, "_")
            IN [err |-> "", tag |-> SubSeq(r.str, 1, i - 1),
                prop |-> SubSeq(r.str, i + 1, Len(r.str))]

\* Internal property names: lower-case alphanumeric words joined by single
\* underscores.
ValidName(w) ==
    /\ w # <<>>
    /\ \A i \in 1..Len(w) : w[i] \in {"a", "1", "_"}
    /\ w[1] # "_" /\ w[Len(w)] # "_"
    /\ ~HasDouble(w)
Names == {w \in Strings(MaxLen) : ValidName(w)}
TagNames == Strings(MaxTagLen)

otherComponents == <<subs, store, cm, rt, qos, publish_callable, net>>
nonConv == <<now, next_uid, ev, ms, sent, proxyState, otherComponents>>

\* The arguments of a call that was not made yet.
Args(n, t) == [fn |-> "", arg |-> n, tag |-> t, err |-> "", res |-> <<>>,
               rtag |-> <<>>]

\* The conversions take any string; the tagging takes a name and a tag.
InitNames ==
    /\ ProxyInit
    /\ ms = NewService(StrV(TestTag), FALSE)
    /\ sent = <<>>
    /\ subs = NewSubscriptionProxy
    /\ store = NewMessageStore
    /\ cm = NewConnectionManager
    /\ rt = NewRepeatingTimer
    /\ qos = NewQosMetricsManager
    /\ publish_callable = TRUE
    /\ net = NetIdle
    /\ conv \in {Args(w, <<>>) : w \in Strings(MaxLen)}
                \cup {Args(n, t) : n \in Names, t \in TagNames}

\* snake_to_camel(arg)
SnakeToCamelCall ==
    /\ conv.fn = "" /\ conv.tag = <<>>
    /\ conv' = [conv EXCEPT !.fn = "snake_to_camel",
                            !.err = snake_to_camel_str(conv.arg).err,
                            !.res = snake_to_camel_str(conv.arg).str]
    /\ UNCHANGED nonConv

\* camel_to_snake(arg)
CamelToSnakeCall ==
    /\ conv.fn = "" /\ conv.tag = <<>>
    /\ conv' = [conv EXCEPT !.fn = "camel_to_snake",
                            !.err = camel_to_snake_str(conv.arg).err,
                            !.res = camel_to_snake_str(conv.arg).str]
    /\ UNCHANGED nonConv

\* camel_to_snake(snake_to_camel(arg)) of an internal name
NameRoundTrip ==
    LET camel == snake_to_camel_str(conv.arg)
        back == camel_to_snake_str(camel.str)
    IN /\ conv.fn = "" /\ conv.tag = <<>> /\ ValidName(conv.arg)
       /\ conv' = [conv EXCEPT !.fn = "name_round_trip",
                               !.err = IF camel.err # "" THEN camel.err
                                       ELSE back.err,
                               !.res = back.str]
       /\ UNCHANGED nonConv

\* untag_class_property(tag_class_property(arg, tag), include_tag=True)
TagRoundTrip ==
    LET tagged == tag_class_property_str(conv.arg, conv.tag)
        back == untag_class_property_str(tagged.str)
    IN /\ conv.fn = "" /\ conv.tag # <<>>
       /\ conv' = [conv EXCEPT !.fn = "tag_round_trip",
                               !.err = IF tagged.err # "" THEN tagged.err
                                       ELSE back.err,
                               !.res = back.prop,
                               !.rtag = back.tag]
       /\ UNCHANGED nonConv

NextNames ==
    \/ SnakeToCamelCall
    \/ CamelToSnakeCall
    \/ NameRoundTrip
    \/ TagRoundTrip

SpecNames == InitNames /\ [][NextNames]_vars

\* --------------------------------------- SubscriptionProxy (msproxy.py)
\* subs.subscriptions is self._subscriptions, module -> topic -> callback;
\* subs.mqtt the topics the parent MQTT client is subscribed to; subs.calls
\* counts, per module, the calls of its callbacks by the last proxy_pub of
\* topic subs.pub; subs.ret is the value the last proxy_add or proxy_del
\* returned.
BoolV(b) == [t |-> "bool", b |-> b]
Callbacks == {FnV("cb"), NoneV}

nonSubs == <<now, next_uid, ev, ms, sent, proxyState, conv, store, cm, rt, qos,
            publish_callable, net>>

\* proxy_add(module, topic, callback); subscribed tells whether the parent's
\* subscribe returned without an exception.
proxy_add(s, module, topic, callback, subscribed) ==
    IF module \in DOMAIN s.subscriptions
          /\ topic \in DOMAIN s.subscriptions[module]
    THEN [s EXCEPT !.ret = BoolV(FALSE)]
    ELSE LET created == IF module \in DOMAIN s.subscriptions
                        THEN s.subscriptions
                        ELSE Put(s.subscriptions, module, EmptyMap)
         IN IF subscribed
            THEN [s EXCEPT !.subscriptions =
                               Put(created, module,
                                   Put(created[module], topic, callback)),
                           !.mqtt = @ \cup {topic},
                           !.ret = BoolV(TRUE)]
            ELSE [s EXCEPT !.subscriptions = created, !.ret = BoolV(FALSE)]

ProxyAdd(module, topic, callback, subscribed) ==
    /\ subs' = proxy_add(subs, module, topic, callback, subscribed)
    /\ UNCHANGED nonSubs

modules_subscribed(s, topic) ==
    {mod \in DOMAIN s.subscriptions : topic \in DOMAIN s.subscriptions[mod]}

\* A removal that takes the topic away from every module.
proxy_del_topic(s, module, topic) ==
    [s EXCEPT !.subscriptions =
                  [mod \in DOMAIN s.subscriptions |->
                      Drop(s.subscriptions[mod], topic)],
              !.mqtt = @ \ {topic},
              !.ret = BoolV(TRUE)]

\* proxy_del(module, topic)
proxy_del(s, module, topic) ==
    IF module \in DOMAIN s.subscriptions
          /\ topic \in DOMAIN s.subscriptions[module]
    THEN LET topics == Drop(s.subscriptions[module], topic)
         IN [s EXCEPT !.subscriptions =
                          IF DOMAIN topics = {}
                          THEN Drop(s.subscriptions, module)
                          ELSE Put(s.subscriptions, module, topics),
                      !.mqtt = IF Cardinality(modules_subscribed(s, topic)) = 1
                               THEN @ \ {topic} ELSE @,
                      !.ret = BoolV(TRUE)]
    ELSE [s EXCEPT !.ret = BoolV(TRUE)]

ProxyDel(module, topic) ==
    /\ subs' = proxy_del(subs, module, topic)
    /\ UNCHANGED nonSubs

\* proxy_pub(topic, message): each module's callable for the topic is called.
proxy_pub(s, topic) ==
    [s EXCEPT !.pub = topic,
              !.calls = [m \in Modules |->
                            IF /\ m \in DOMAIN s.subscriptions
                               /\ topic \in DOMAIN s.subscriptions[m]
                               /\ Callable(s.subscriptions[m][topic])
                            THEN 1 ELSE 0]]

ProxyPub(topic) ==
    /\ subs' = proxy_pub(subs, topic)
    /\ UNCHANGED nonSubs

NextSubs ==
    \/ \E m \in Modules, t \in Topics, cb \in Callbacks, ok \in BOOLEAN :
           ProxyAdd(m, t, cb, ok)
    \/ \E m \in Modules, t \in Topics : ProxyDel(m, t)
    \/ \E t \in Topics : ProxyPub(t)

SpecSubs == Init /\ [][NextSubs]_vars

\* ------------------------------------------------ MessageStore (message.py)
\* A MessageMeta with its size, len(base64.b64decode(data_b64)).
MessageMeta(id, mo, size) == [t |-> "msg", id |-> id, mo |-> mo, size |-> size]
Messages ==
    {MessageMeta(id, mo, size) : id \in 1..MaxMsgId, mo \in BOOLEAN,
                                 size \in 0..MaxSize}
FirstEnqueued == 0 - 1

nonStore == <<now, next_uid, ev, ms, sent, proxyState, conv, subs, cm, rt, qos,
             publish_callable, net>>

SeqRemove(q, i) == SubSeq(q, 1, i - 1) \o SubSeq(q, i + 1, Len(q))
HasId(q, id) == \E i \in 1..Len(q) : q[i].id = id
IndexOfId(q, id) ==
    CHOOSE i \in 1..Len(q) : q[i].id = id /\ \A j \in 1..(i - 1) : q[j].id # id

\* MessageStore.add(message): `queue == self.rx_queue` compares the two lists
\* by value.
add(s, message) ==
    LET msg_queue == IF message.mo THEN s.rx_queue ELSE s.tx_queue
        recorded == IF msg_queue = s.rx_queue
                    THEN [s EXCEPT !.last_mo_id = message.id]
                    ELSE [s EXCEPT !.last_mt_id = message.id]
    IN IF HasId(msg_queue, message.id)
       THEN [s EXCEPT !.err = "ValueError", !.ret = NoneV]
       ELSE [recorded EXCEPT
                !.rx_queue = IF message.mo THEN Append(@, message) ELSE @,
                !.tx_queue = IF message.mo THEN @ ELSE Append(@, message),
                !.byte_count = @ + message.size,
                !.err = "", !.ret = NoneV]

Add(message) ==
    /\ store.byte_count + message.size <= MaxBytes
    /\ store' = add(store, message)
    /\ UNCHANGED nonStore

\* MessageStore.get(id, mo, retain)
get(s, id, mo, retain) ==
    LET msg_queue == IF mo THEN s.rx_queue ELSE s.tx_queue
        found == (id = FirstEnqueued /\ Len(msg_queue) > 0) \/ HasId(msg_queue, id)
        i == IF id = FirstEnqueued /\ Len(msg_queue) > 0 THEN 1
             ELSE IndexOfId(msg_queue, id)
    IN IF ~found THEN [s EXCEPT !.err = "ValueError", !.ret = NoneV]
       ELSE [s EXCEPT
                !.rx_queue = IF mo /\ ~retain THEN SeqRemove(@, i) ELSE @,
                !.tx_queue = IF ~mo /\ ~retain THEN SeqRemove(@, i) ELSE @,
                !.err = "", !.ret = msg_queue[i]]

Get(id, mo, retain) ==
    /\ store' = get(store, id, mo, retain)
    /\ UNCHANGED nonStore

NextStore ==
    \/ \E m \in Messages : Add(m)
    \/ \E id \in {FirstEnqueued} \cup (1..MaxMsgId), mo \in BOOLEAN,
          retain \in BOOLEAN : Get(id, mo, retain)

SpecStore == Init /\ [][NextStore]_vars

\* ------------------------------------------- ConnectionManager (modem.py)
\* The retry intervals a manager is built with: the default, and two that
\* meet the ceiling after one doubling and at once.
RetryIntervals == {DefaultRetryInterval, MaxBackoff \div 2, MaxBackoff}

nonCm == <<now, next_uid, ev, ms, sent, proxyState, conv, subs, store, rt, qos,
          publish_callable, net>>

InitCm ==
    /\ ProxyInit
    /\ ms = NewService(StrV(TestTag), FALSE)
    /\ sent = <<>>
    /\ conv = NoConv
    /\ subs = NewSubscriptionProxy
    /\ store = NewMessageStore
    /\ cm \in {ConnectionManager(r) : r \in RetryIntervals}
    /\ rt = NewRepeatingTimer
    /\ qos = NewQosMetricsManager
    /\ publish_callable = TRUE
    /\ net = NetIdle

\* ConnectionManager.backoff()
backoff(c) ==
    IF c.init_attempts > 3 /\ c.init_attempts % 3 = 0
          /\ c.backoff_interval * 2 <= MaxBackoff
    THEN [c EXCEPT !.backoff_interval = @ * 2]
    ELSE c

\* The application counts an initialization attempt and backs off.
Attempt ==
    /\ cm.init_attempts < MaxAttempts
    /\ cm' = backoff([cm EXCEPT !.init_attempts = @ + 1])
    /\ UNCHANGED nonCm

\* ConnectionManager.reset()
CmReset ==
    /\ cm' = [cm EXCEPT !.init_attempts = 0,
                        !.backoff_interval = cm.retry_interval]
    /\ UNCHANGED nonCm

NextCm ==
    \/ Attempt
    \/ CmReset

SpecCm == InitCm /\ [][NextCm]_vars

\* ----------------------------------------------- RepeatingTimer (timer.py)
\* rt.pc is the position of the timer thread: "new" before Thread.start(),
\* "outer" at the test of the outer loop of run, "inner" at the test of the
\* inner loop, "body" inside the inner loop, "done" after run returned.
nonRt == <<now, next_uid, ev, ms, sent, proxyState, conv, subs, store, cm, qos,
          publish_callable, net>>

InitTimer ==
    /\ ProxyInit
    /\ ms = NewService(StrV(TestTag), FALSE)
    /\ sent = <<>>
    /\ conv = NoConv
    /\ subs = NewSubscriptionProxy
    /\ store = NewMessageStore
    /\ cm = NewConnectionManager
    /\ qos = NewQosMetricsManager
    /\ publish_callable = TRUE
    /\ net = NetIdle
    /\ rt \in {RepeatingTimer(seconds, defer) :
                  seconds \in 0..MaxSeconds, defer \in BOOLEAN}

\* self.interval / self.sleep_chunk
FullCount(r) == r.interval * ChunksPerSecond

\* A call made on the timer from another thread.
Called(r) == [r EXCEPT !.calls = @ + 1]

\* Thread.start()
StartThread ==
    /\ rt.pc = "new" /\ rt.calls < MaxCalls
    /\ rt' = [Called(rt) EXCEPT !.pc = "outer"]
    /\ UNCHANGED nonRt

\* run: while not self._terminate_event.is_set()
RunOuter ==
    /\ rt.pc = "outer"
    /\ rt' = [rt EXCEPT !.pc = IF rt.terminate_event THEN "done" ELSE "inner"]
    /\ UNCHANGED nonRt

\* run: while self._count > 0 and self._start_event.is_set() and
\* self.interval > 0
RunInner ==
    /\ rt.pc = "inner"
    /\ rt' = [rt EXCEPT !.pc = IF rt.count > 0 /\ rt.start_event
                                    /\ rt.interval > 0
                                 THEN "body" ELSE "outer"]
    /\ UNCHANGED nonRt

\* run, the body of the inner loop: the wait of one sleep_chunk, the count
\* down and, at zero, the call of the target, which returns or raises.
RunBody(raises) ==
    LET waited == IF rt.reset_event THEN FullCount(rt) ELSE rt.count
        counted == waited - 1
    IN /\ rt.pc = "body"
       /\ IF counted <= 0
          THEN /\ rt.fired < MaxFires
               /\ rt' = [rt EXCEPT !.pc = "inner", !.reset_event = FALSE,
                                   !.fired = @ + 1,
                                   !.count = IF raises THEN counted
                                             ELSE FullCount(rt),
                                   !.exception = IF raises THEN TRUE ELSE @]
          ELSE /\ ~raises
               /\ rt' = [rt EXCEPT !.pc = "inner", !.reset_event = FALSE,
                                   !.count = counted]
       /\ UNCHANGED nonRt

\* The first lines of start_timer and restart_timer: without defer the
\* target is called in the caller's thread.
CallsTarget(r) == ~r.defer /\ r.interval > 0

\* start_timer()
StartTimer(raises) ==
    /\ rt.calls < MaxCalls
    /\ IF CallsTarget(rt)
       THEN /\ rt.fired < MaxFires
            /\ rt' = [Called(rt) EXCEPT !.fired = @ + 1,
                                        !.start_event = IF raises THEN @ ELSE TRUE]
       ELSE /\ ~raises
            /\ rt' = [Called(rt) EXCEPT !.start_event = TRUE]
    /\ UNCHANGED nonRt

\* stop_timer()
stop_timer(r) == [r EXCEPT !.start_event = FALSE, !.count = FullCount(r)]

StopTimer ==
    /\ rt.calls < MaxCalls
    /\ rt' = stop_timer(Called(rt))
    /\ UNCHANGED nonRt

\* restart_timer()
restart_timer(r, raises) ==
    IF CallsTarget(r) /\ raises THEN [r EXCEPT !.fired = @ + 1]
    ELSE [r EXCEPT !.fired = IF CallsTarget(r) THEN @ + 1 ELSE @,
                   !.reset_event = IF r.start_event THEN TRUE ELSE @,
                   !.start_event = TRUE]

RestartTimer(raises) ==
    /\ rt.calls < MaxCalls
    /\ CallsTarget(rt) => rt.fired < MaxFires
    /\ ~CallsTarget(rt) => ~raises
    /\ rt' = restart_timer(Called(rt), raises)
    /\ UNCHANGED nonRt

\* change_interval(seconds), seconds an integer >= 0
ChangeInterval(seconds, raises) ==
    LET changed == [Called(rt) EXCEPT !.interval = seconds,
                                      !.count = seconds * ChunksPerSecond]
    IN /\ rt.calls < MaxCalls
       /\ CallsTarget(changed) => rt.fired < MaxFires
       /\ ~CallsTarget(changed) => ~raises
       /\ rt' = restart_timer(changed, raises)
       /\ UNCHANGED nonRt

\* terminate()
terminate(r) == [stop_timer(r) EXCEPT !.terminate_event = TRUE]

Terminate ==
    /\ rt.calls < MaxCalls
    /\ rt' = terminate(Called(rt))
    /\ UNCHANGED nonRt

\* join(), once the thread has ended: raises the exception that run kept.
Join ==
    /\ rt.pc = "done" /\ rt.joined = ""
    /\ rt' = [rt EXCEPT !.joined = IF rt.exception THEN "raised" ELSE "returned"]
    /\ UNCHANGED nonRt

TimerThread ==
    \/ RunOuter
    \/ RunInner
    \/ \E raises \in BOOLEAN : RunBody(raises)

NextTimer ==
    \/ StartThread
    \/ TimerThread
    \/ \E raises \in BOOLEAN : StartTimer(raises)
    \/ StopTimer
    \/ \E raises \in BOOLEAN : RestartTimer(raises)
    \/ \E seconds \in 0..MaxSeconds, raises \in BOOLEAN :
           ChangeInterval(seconds, raises)
    \/ Terminate
    \/ Join

\* The timer thread is scheduled and a wait of one sleep_chunk ends.
SpecTimer == InitTimer /\ [][NextTimer]_vars /\ WF_vars(TimerThread)

\* -------------------------------------------- QosMetricsManager (modem.py)
nonQos == <<now, next_uid, ev, ms, sent, proxyState, conv, subs, store, cm, rt,
           publish_callable, net>>

\* The values assigned: small ones, the default and the two ends of the range.
QosValues ==
    (0..MaxQos) \cup {DefaultMetricsInterval, MaxInterval, MaxInterval + 1}

\* int(self.metrics_interval / value) for positive integers
IntQuotient(a, b) == a \div b

\* The setter of metrics_interval.
set_metrics_interval(q, value) ==
    IF value \notin 0..MaxInterval THEN [q EXCEPT !.err = "ValueError"]
    ELSE [q EXCEPT !.metrics_interval = value, !.err = ""]

SetMetricsInterval(value) ==
    /\ qos' = set_metrics_interval(qos, value)
    /\ UNCHANGED nonQos

\* The setter of sample_interval.
set_sample_interval(q, value) ==
    IF value < 0 \/ value > q.metrics_interval
    THEN [q EXCEPT !.err = "ValueError"]
    ELSE [q EXCEPT !.sample_interval =
                       IF value > 0 /\ q.metrics_interval % value # 0
                       THEN IntQuotient(q.metrics_interval, value)
                       ELSE value,
                   !.err = ""]

SetSampleInterval(value) ==
    /\ qos' = set_sample_interval(qos, value)
    /\ UNCHANGED nonQos

NextQos ==
    \/ \E value \in QosValues : SetMetricsInterval(value)
    \/ \E value \in QosValues : SetSampleInterval(value)

SpecQos == Init /\ [][NextQos]_vars

\* =================================================================== claims
\* The queued task with the uid.
TaskOf(q, uid) == q[CHOOSE i \in 1..Len(q) : q[i].uid = uid]

\* C1: the request of a later query_properties call is published only after
\* the task of every earlier call has left the queue (handled or expired).
C1_PublishesSerialized ==
    \A i \in 1..(Len(published) - 1) : published[i] \in removed

C3_GateSetAfterCallback ==
    [][\A u \in Uids, b \in Payloads :
          (TaskHandle(u, b) /\ IsQueued(queue, u)) => gate']_vars

\* C4: a sweep removes every queued task that has a callable timeout_callback
\* and whose age exceeds its lifetime, and invokes that callback exactly once,
\* with task_id and the task's other non-callback metadata.
C4_TimeoutCallbackOnce ==
    [][\A i \in 1..Len(queue) :
          (/\ QRemoveExpired
           /\ Len(queue) = 1
           /\ Expired(queue[i])
           /\ HasTimeoutCallback(queue[i]))
          => /\ ~IsQueued(queue', queue[i].uid)
             /\ tcb_count' = [tcb_count EXCEPT ![queue[i].uid] = @ + 1]
             /\ ev'.meta = TimeoutMeta(queue[i])]_vars

\* C5: the queue holds only tasks, with pairwise distinct uids; an append of a
\* non-task or of a queued uid raises and changes nothing; insert raises and
\* changes nothing.
C5_DistinctUids ==
    \A i, j \in 1..Len(queue) :
        IsTask(queue[i]) /\ (i # j => queue[i].uid # queue[j].uid)

\* C6: a response whose uid is absent, empty or not the uid of a queued task
\* makes task_handle return False and change nothing.
C6_UnmatchedResponseIgnored ==
    [][(/\ ev'.op = "task_handle"
        /\ ev'.who \in ResponseUids
        /\ ev'.who = 0 \/ ~IsQueued(queue, ev'.who)
        /\ ev'.body \in Payloads
        /\ TaskHandle(ev'.who, ev'.body))
          => /\ ev'.res = "False"
             /\ UNCHANGED <<queue, gate, snapshot, cache, initialized,
                            initializing, callers, published, removed,
                            cb_count, tcb_count, init_calls>>]_vars

\* A late response (its task already handled or expired) was ignored while
\* another task was queued.
C6_Witness ==
    /\ ev.op = "task_handle"
    /\ ev.res = "False"
    /\ ev.who \in removed
    /\ queue # <<>>

\* C7: a response with the uid of a queued task pops exactly that task, calls
\* its callback once with the response and with metadata holding task_id and
\* task_type, and returns True; no callback runs twice for one uid.
C7_MatchedResponseDelivered ==
    /\ [][\A u \in Uids :
             (IsQueued(queue, u) /\ ev'.op = "task_handle" /\ ev'.who = u)
             => \A b \in Payloads :
                   TaskHandle(u, b)
                   => /\ ev'.res = "True"
                      /\ \E i \in 1..Len(queue) :
                            queue[i].uid = u /\ queue' = RemoveAt(queue, i)
                      /\ ~IsQueued(queue', u)
                      /\ cb_count' = [cb_count EXCEPT ![u] = @ + 1]
                      /\ ev'.body = b
                      /\ ev'.meta["task_id"] = IntV(u)
                      /\ "task_type" \in DOMAIN ev'.meta]_vars
    /\ [](\A u \in Uids : cb_count[u] <= 1)

\* A second response with the uid of a delivered task was ignored while
\* another task stayed queued.
C7_Witness ==
    /\ ev.op = "task_handle"
    /\ ev.res = "False"
    /\ ev.who \in Uids
    /\ cb_count[ev.who] = 1
    /\ queue # <<>>

\* C8: handling a response with the initialization task's uid and a properties
\* mapping makes the proxy initialized and the cache key 'all' valid, stores
\* the response's properties in the snapshot, and calls init_callback once
\* with success=True.
C8_InitResponseCompletes ==
    [][\A u \in Uids :
          (/\ IsQueued(queue, u)
           /\ "initialize" \in DOMAIN TaskOf(queue, u).meta
           /\ ev'.op = "task_handle"
           /\ ev'.who = u)
          => \A b \in Payloads \ {NoBody} :
                TaskHandle(u, b)
                => /\ initialized'
                   /\ "all" \in DOMAIN cache'
                   /\ \/ cache'["all"].ttl = NoneInt
                      \/ now' - cache'["all"].cached_at < cache'["all"].ttl
                   /\ ~snapshot'.none
                   /\ \A k \in DOMAIN b :
                         k \in DOMAIN snapshot'.m /\ snapshot'.m[k] = b[k]
                   /\ init_calls' = Append(init_calls, TRUE)]_vars

\* The initialization response, with values for p and q, has been handled.
C8_Witness ==
    /\ ev.op = "task_handle"
    /\ ev.res = "True"
    /\ "initialize" \in DOMAIN ev.meta
    /\ ev.body # NoBody
    /\ DOMAIN ev.body = PropNames
    /\ initialized
    /\ init_calls = <<TRUE>>

C10_NoneStateRejectsReads ==
    [][\A c \in MainCaller :
          (StateNone /\ (Properties(c) \/ \E n \in PropNames : PropertyGet(c, n)))
          => (ev'.res = "OSError" /\ published' = published)]_vars

\* C11: on an initialized proxy whose cache key 'all' is valid, the properties
\* accessor returns the snapshot as it is and publishes nothing, queues
\* nothing and leaves the gate alone.
C11_CachedReadIsLocal ==
    [][\A c \in MainCaller :
          (/\ initialized
           /\ "all" \in DOMAIN cache
           /\ EntryValid(cache["all"])
           /\ Properties(c))
          => (/\ ev'.res = "ok"
              /\ ev'.snap = snapshot
              /\ UNCHANGED <<snapshot, published, queue, gate, callers,
                             next_uid, cache>>)]_vars

C11_Witness ==
    /\ ev.op = "properties"
    /\ ev.res = "ok"
    /\ initialized
    /\ "all" \in DOMAIN cache
    /\ EntryValid(cache["all"])
    /\ ev.snap = snapshot
    /\ ~snapshot.none
    /\ DOMAIN snapshot.m = PropNames
    /\ Len(published) = 1

\* C12: a normal return of the properties accessor hands back the property
\* mapping, never None; when the get-all query it waited for expired, the
\* accessor fails instead of returning.
C12_AccessorReturnsMapping ==
    (ev.op = "properties" /\ ev.res = "ok") => ~ev.snap.none

\* A queued task of a get-all query: the initialization query or the query of
\* the properties accessor.
GetAllQueued ==
    \E i \in 1..Len(queue) :
        \/ "initialize" \in DOMAIN queue[i].meta
        \/ /\ "properties" \in DOMAIN queue[i].meta
           /\ queue[i].meta["properties"] = StrV("all")

\* C13: reading properties while a get-all query of the proxy is in flight,
\* the one of initialize() included, publishes no further request.
C13_PendingGetAllNotRepeated ==
    [][\A c \in MainCaller :
          (GetAllQueued /\ Properties(c)) => published' = published]_vars

\* C14: on an initialized proxy, once the response to property_set(n, v) has
\* been handled and v is held for n, property_get(n) returns v, for falsy v
\* as for any other value.
C14_SetThenGet ==
    [][\A c \in MainCaller, n \in PropNames :
          (/\ initialized
           /\ ev.op = "task_handle"
           /\ ev.res = "True"
           /\ "set" \in DOMAIN ev.meta
           /\ ev.meta["set"] = StrV(n)
           /\ n \in DOMAIN ev.body
           /\ GetCached(cache, n) = ev.body[n]
           /\ PropertyGet(c, n))
          => (/\ ev'.op = "property_get"
              /\ ev'.res = "ok"
              /\ ev'.val = ev.body[n])]_vars

\* The frame of a rejected query_properties call.
RejectedCall(c) ==
    /\ ev'.op = "query_properties"
    /\ ev'.who = c
    /\ ev'.res = "ValueError"
    /\ UNCHANGED <<queue, gate, cache, snapshot, published, callers, next_uid>>

OwnBroadcasts ==
    {d \in OwnDeliveries : d.topic = ms.default_publish_topic \o <<"rollcall">>}

\* C17: a rollcall message received on fieldedge/{own tag}/rollcall, and in
\* particular the microservice's own broadcast coming back from the broker,
\* is not answered: handling it publishes nothing.
C17_OwnRollcallNotAnswered ==
    [][\A d \in Deliveries :
          ((d.topic = <<"fieldedge", ms.tag, "rollcall">> \/ d \in OwnBroadcasts)
           /\ OnIscMessage(d))
          => sent' = sent]_vars

\* The properties a rollcall response reports: in the rollcall list and
\* listed in `properties`.
Reported(s) == {p \in MsProperties(s) : InList(p, s.rollcall_properties)}
WireName(s, p) == tag_class_property(p, IF s.isc_tags THEN StrV(s.tag) ELSE NoneV)

C19_PublishedHasTimestamp ==
    \A i \in 1..Len(sent) : TsKey \in DOMAIN sent[i].message

\* C20: cache_valid reports an entry stored at cache_time with a lifetime as
\* valid exactly when the lifetime is None or now - cache_time < lifetime.
C20_CacheValidity ==
    [][\A t \in CacheTags :
          (t \in DOMAIN ms.property_cache /\ CacheValid(t))
          => LET e == ms.property_cache[t] IN
             (ev'.res = "True") <=> (e.cache_lifetime = NoneInt
                                     \/ now - e.cache_time < e.cache_lifetime)]_vars

\* C21: hiding a listed property removes it from properties and keeps every
\* other listed name; unhiding it afterwards gives the list of before.
C21_HideUnhide ==
    [][\A p \in MsProps :
          (p \in MsProperties(ms) /\ HideProperty(p))
          => /\ p \notin MsProperties(ms')
             /\ MsProperties(ms) \ {p} \subseteq MsProperties(ms')
             /\ PropertyList(unhide_property(ms', p)) = PropertyList(ms)]_vars

\* One property was hidden while another was hidden already.
C21_Witness == ms.hide = <<LogLevel, SubProp>> /\ PropertyList(ms) = <<>>

\* C22: isc_ignore_property and isc_unignore_property change nothing but the
\* ISC-ignore list (so properties and the hidden list stay), and
\* hide_property and unhide_property leave the ISC-ignore list as it is.
C22_FiltersIndependent ==
    [][\A p \in MsProps :
          /\ (IscIgnoreProperty(p) \/ IscUnignoreProperty(p))
             => /\ ms' = [ms EXCEPT !.isc_ignore = ms'.isc_ignore]
                /\ PropertyList(ms') = PropertyList(ms)
          /\ (HideProperty(p) \/ UnhideProperty(p))
             => ms'.isc_ignore = ms.isc_ignore]_vars

\* A property was ISC-ignored and is still listed locally, while the other
\* one is hidden and not ISC-ignored.
C22_Witness ==
    /\ InList(SubProp, ms.isc_ignore) /\ SubProp \in MsProperties(ms)
    /\ ms.hide = <<LogLevel>> /\ ~InList(LogLevel, ms.isc_ignore)
    /\ isc_properties(ms) = <<>>

\* C23: for every wire name listed in isc_properties, tagged or not,
\* get_prop_from_isc returns the value of the property the name was derived
\* from; a name of several words whose property is not listed fails with
\* AttributeError.
C23_GetByWireName ==
    [][\A w \in WireNames :
          GetPropFromIsc(w)
          => /\ \A i \in 1..Len(isc_properties(ms)) :
                  isc_properties(ms)[i] = w
                  => /\ ev'.res = ""
                     /\ get_prop_from_isc(ms, w).value =
                            ms.values[get_class_properties(ms.hide \o ms.isc_ignore)[i]]
             /\ (Len(w) > 1 /\ untag_class_property(w).prop \notin MsProperties(ms))
                  => ev'.res = "AttributeError"]_vars

\* C24: set_prop_from_isc of a listed wire name of a writable property
\* stores the value, and get_prop_from_isc of that name returns it.
C24_SetByWireName ==
    [][\A w \in WireNames, v \in NewValues :
          ((\E i \in 1..Len(isc_properties(ms)) : isc_properties(ms)[i] = w)
           /\ SetPropFromIsc(w, v))
          => /\ ev'.res = ""
             /\ get_prop_from_isc(ms', w).value = v]_vars

\* Every word of the name is letters followed by digits.
RECURSIVE AllPlain(_)
AllPlain(words) ==
    \/ words = <<>>
    \/ /\ Head(words) # <<>>
       /\ Head(words)[1] = "a"
       /\ \A i \in 2..Len(Head(words)) :
              Head(words)[i] = "a" => Head(words)[i - 1] = "a"
       /\ AllPlain(Tail(words))

\* The tag is lower case and has no underscore.
PlainTag(t) == t # <<>> /\ \A i \in 1..Len(t) : t[i] \in {"a", "1"}

\* C25 as stated: for every internal property name and every non-empty tag,
\* untagging the tagged name returns the name and the tag.
C25_TagRoundTripAll ==
    conv.fn = "tag_round_trip"
        => conv.err = "" /\ conv.res = conv.arg /\ conv.rtag = conv.tag

\* C25: for every internal property name whose words are letters followed by
\* digits, and every non-empty tag without an upper-case letter or an
\* underscore, untagging the tagged name returns the name and the tag.
C25_TagRoundTrip ==
    (conv.fn = "tag_round_trip" /\ AllPlain(StrSplit(conv.arg))
        /\ PlainTag(conv.tag))
        => conv.err = "" /\ conv.res = conv.arg /\ conv.rtag = conv.tag

C25_Witness ==
    /\ conv.fn = "tag_round_trip"
    /\ conv.arg = <<"a", "_", "a", "1">> /\ conv.tag = <<"a", "1">>
    /\ conv.res = conv.arg /\ conv.rtag = conv.tag

\* C26 as stated: for every valid internal name, converting it to camel case
\* and back returns the name.
C26_NameRoundTripAll ==
    conv.fn = "name_round_trip" => conv.err = "" /\ conv.res = conv.arg

\* C26: for every valid internal name whose words after the first are letters
\* followed by digits, converting it to camel case and back returns the name.
C26_NameRoundTrip ==
    (conv.fn = "name_round_trip" /\ AllPlain(Tail(StrSplit(conv.arg))))
        => conv.err = "" /\ conv.res = conv.arg

C26_Witness ==
    /\ conv.fn = "name_round_trip"
    /\ conv.arg = <<"1", "_", "a", "1">>
    /\ conv.res = conv.arg

\* The module holds a callback for exactly this topic.
Registered(s, module, topic) ==
    /\ module \in DOMAIN s.subscriptions
    /\ topic \in DOMAIN s.subscriptions[module]
    /\ Callable(s.subscriptions[module][topic])

\* What the module holds for the topic.
Absent == [t |-> "absent"]
Held(s, module, topic) ==
    IF module \in DOMAIN s.subscriptions
          /\ topic \in DOMAIN s.subscriptions[module]
    THEN s.subscriptions[module][topic] ELSE Absent

\* C27: proxy_pub of a topic calls exactly once the callback of every module
\* registered for exactly that topic and no other callback; an accepted
\* proxy_add registers, proxy_del removes the module's registration for the
\* topic, and both leave every other registration in place.
C27_FanOut ==
    [][/\ \A t \in Topics : ProxyPub(t) =>
              /\ \A m \in Modules :
                     subs'.calls[m] = IF Registered(subs, m, t) THEN 1 ELSE 0
              /\ subs'.subscriptions = subs.subscriptions
       /\ \A m \in Modules, t \in Topics : ProxyDel(m, t) =>
              /\ Held(subs', m, t) = Absent
              /\ \A m2 \in Modules, t2 \in Topics :
                     <<m2, t2>> # <<m, t>>
                         => Held(subs', m2, t2) = Held(subs, m2, t2)
       /\ \A m \in Modules, t \in Topics, cb \in Callbacks, ok \in BOOLEAN :
              ProxyAdd(m, t, cb, ok) =>
              /\ subs'.ret = BoolV(TRUE) => Held(subs', m, t) = cb
              /\ \A m2 \in Modules, t2 \in Topics :
                     <<m2, t2>> # <<m, t>>
                         => Held(subs', m2, t2) = Held(subs, m2, t2)
      ]_vars

\* Two modules were registered for t1, m1 was removed, and a proxy_pub of t1
\* called the callback of m2 alone.
C27_Witness ==
    /\ subs.pub = "t1"
    /\ subs.calls = [m \in Modules |-> IF m = "m2" THEN 1 ELSE 0]
    /\ ~Registered(subs, "m1", "t1") /\ Registered(subs, "m1", "t2")
    /\ Registered(subs, "m2", "t1")
    /\ "t1" \in subs.mqtt

\* C28: an accepted add of a mobile-originated message sets last_mo_id to
\* its id and leaves last_mt_id unchanged, and an accepted add of a
\* mobile-terminated message sets last_mt_id to its id and leaves last_mo_id
\* unchanged, whatever the queues hold.
C28_AddRecordsDirection ==
    [][\A m \in Messages : (Add(m) /\ store'.err = "") =>
          IF m.mo
          THEN store'.last_mo_id = m.id /\ store'.last_mt_id = store.last_mt_id
          ELSE store'.last_mt_id = m.id /\ store'.last_mo_id = store.last_mo_id
      ]_vars

RECURSIVE SumSizes(_)
SumSizes(q) == IF q = <<>> THEN 0 ELSE Head(q).size + SumSizes(Tail(q))

\* C29: byte_count is the sum of the sizes of the messages held in the two
\* queues.
C29_ByteCount ==
    store.byte_count = SumSizes(store.tx_queue) + SumSizes(store.rx_queue)

\* The doublings due after n attempts: one at attempt 4 and one every 3
\* further attempts.
Doublings(n) == IF n < 4 THEN 0 ELSE ((n - 4) \div 3) + 1

\* The interval after d doublings that stop below the ceiling.
RECURSIVE Doubled(_, _)
Doubled(interval, d) ==
    IF d = 0 \/ interval * 2 > MaxBackoff THEN interval
    ELSE Doubled(interval * 2, d - 1)

\* C30: after n counted attempts backoff_interval is retry_interval for n up
\* to 3, doubled at attempt 4 and again every 3 further attempts, and never
\* above 86400.
C30_BackoffSchedule ==
    /\ cm.backoff_interval = Doubled(cm.retry_interval, Doublings(cm.init_attempts))
    /\ cm.backoff_interval <= MaxBackoff

\* The tasks of the queue that the sweep has to keep, in their order.
Unexpired(q) == SelectSeq(q, LAMBDA task : ~Expired(task))

\* C32: one remove_expired removes exactly the expired tasks, wherever and
\* however many they are, leaves every other task queued, and does not raise.
C32_SweepRemovesExactlyExpired ==
    [][QRemoveExpired => (ev'.res = "ok" /\ queue' = Unexpired(queue))]_vars

\* C31: once terminate has been called the target is not invoked again,
\* whatever is called on the timer afterwards, and the run loop of a started
\* timer thread exits.
C31_TerminateIsFinal ==
    /\ [][rt.terminate_event => rt'.fired = rt.fired]_vars
    /\ (rt.terminate_event /\ rt.pc # "new") ~> (rt.pc = "done")

\* The timer thread runs and the timer is started, enabled and not terminated.
Armed ==
    /\ rt.pc \in {"outer", "inner", "body"}
    /\ rt.start_event /\ rt.interval > 0 /\ ~rt.terminate_event

\* C39: while the timer is started with an interval above zero and not
\* terminated, the target is invoked again, also after an invocation raised.
C39_KeepsFiring ==
    \A n \in 0..(MaxFires - 1) :
        (Armed /\ rt.fired = n) ~> (~Armed \/ rt.fired > n)

\* C40: after assignments that do not raise, 0 <= sample_interval <=
\* metrics_interval, and metrics_interval is a multiple of a positive
\* sample_interval.
C40_IntervalsConsistent ==
    /\ 0 <= qos.sample_interval
    /\ qos.sample_interval <= qos.metrics_interval
    /\ qos.sample_interval > 0
           => qos.metrics_interval % qos.sample_interval = 0


\* C36: query_properties(properties) with task_meta and query_meta omitted
\* and a valid properties argument does not fail: it publishes one request
\* carrying the uid of the one task it builds with the default lifetime.
C36_DefaultsAccepted ==
    [][\A c \in MainCaller, a \in QueryArgs :
          (QueryDefault(c, a) /\ Validate(a) # "ValueError")
          => /\ ev'.res # "AttributeError"
             /\ published' = Append(published, next_uid)
             /\ callers'[c].task.lifetime = DefaultLifetime]_vars


\* C37: a response delivered at any time after query_properties published
\* the request (the task neither handled nor expired yet) finds the task
\* queued: task_handle returns True and runs the callback.
C37_ResponseAfterPublishHandled ==
    [][\A u \in Uids, b \in Payloads :
          (TaskHandle(u, b) /\ InList(u, published) /\ u \notin removed)
          => (ev'.res = "True" /\ cb_count'[u] = cb_count[u] + 1)]_vars


\* C38: when initialize() raises on a proxy in state NONE (a subscription
\* refused, or no publish callback), the proxy is left in state NONE with
\* no task queued, and the read of properties that follows fails with the
\* not-initialized error (OSError).
InitializeRaises(c, subscribed) ==
    /\ InitializeCall(c, subscribed)
    /\ StateNone
    /\ ~(subscribed /\ publish_callable)

C38_FailedInitializeLeavesNone ==
    /\ [][\A c \in MainCaller, subscribed \in BOOLEAN :
             InitializeRaises(c, subscribed)
             => (StateNone' /\ queue' = queue /\ published' = published)]_vars
    /\ [][\A c \in MainCaller :
             (PropertiesCall(c) /\ ev.op = "initialize" /\ ev.res = "ValueError"
                 /\ ~initialized)
             => ev'.res = "OSError"]_vars


\* C35: every initialize() that returns is eventually followed by an
\* invocation of init_callback, whatever the response carries and also when
\* no response comes, and the proxy does not stay pending forever.  The call
\* returns at time 0, so that the task's expiry lies within the clock's range.
InitializeReturned == ev.op = "initialize" /\ ev.res = "ok" /\ now = 0

C35_InitCallbackEventually ==
    /\ \A n \in 0..(MainUids - 1) :
          (InitializeReturned /\ Len(init_calls) = n) ~> (Len(init_calls) > n)
    /\ (InitializeReturned /\ initializing /\ ~initialized)
          ~> (initialized \/ ~initializing)


\* C33: under any interleaving of task_handle and the expiry sweep, a task
\* that has left the queue had exactly one terminal outcome, its callback
\* or its timeout_callback, and task_handle does not raise when the sweep
\* removed the task between its is_queued test and its get.
C33_OneTerminalOutcome ==
    /\ [](\A u \in removed : cb_count[u] + tcb_count[u] = 1)
    /\ [][TaskHandleGet => ev'.res # "AttributeError"]_vars


\* C34: handling the response to a queued task re-caches exactly the
\* properties whose value differs from the snapshot and updates the snapshot
\* for them, keeps the snapshot's other entries, and makes the cache key
\* 'all' valid if and only if the task was a full refresh or an
\* initialization; the response to a targeted get or to a set leaves the
\* entry of 'all' as it was.
FullRefresh(meta) ==
    \/ "initialize" \in DOMAIN meta
    \/ "properties" \in DOMAIN meta /\ meta["properties"] = StrV("all")

Differs(base, props) ==
    {k \in DOMAIN props : k \notin DOMAIN base \/ props[k] # base[k]}

Recached(base, props, meta) ==
    /\ \A k \in Differs(base, props) :
          /\ k \in DOMAIN cache'
          /\ cache'[k].value = props[k]
          /\ cache'[k].ttl = NoneInt \/ now' - cache'[k].cached_at < cache'[k].ttl
          /\ ~snapshot'.none
          /\ k \in DOMAIN snapshot'.m
          /\ snapshot'.m[k] = props[k]
    /\ \A k \in PropNames \ Differs(base, props) :
          /\ k \in DOMAIN cache' <=> k \in DOMAIN cache
          /\ k \in DOMAIN cache => cache'[k] = cache[k]
    /\ \A k \in DOMAIN base \ DOMAIN props :
          ~snapshot'.none /\ k \in DOMAIN snapshot'.m /\ snapshot'.m[k] = base[k]
    /\ IF FullRefresh(meta)
       THEN /\ "all" \in DOMAIN cache'
            /\ \/ cache'["all"].ttl = NoneInt
               \/ now' - cache'["all"].cached_at < cache'["all"].ttl
       ELSE /\ "all" \in DOMAIN cache' <=> "all" \in DOMAIN cache
            /\ "all" \in DOMAIN cache => cache'["all"] = cache["all"]

C34_ResponseRecaching ==
    [][\A u \in Uids, b \in Payloads :
          (TaskHandle(u, b) /\ IsQueued(queue, u))
          => Recached(IF snapshot.none THEN EmptyMap ELSE snapshot.m,
                      IF IsMapping(b) THEN b ELSE EmptyMap,
                      TaskOf(queue, u).meta)]_vars


\* C34 as the code has it: the statement holds for the delivered response
\* that carries a properties mapping; a response without one changes neither
\* the snapshot nor the cache, whatever its task.
C34_MappingResponseRecaching ==
    [][(/\ ev'.op = "task_handle"
        /\ ev'.res = "True"
        /\ IsQueued(queue, ev'.who)
        /\ TaskHandle(ev'.who, ev'.body))
       => IF IsMapping(ev'.body)
          THEN Recached(IF snapshot.none THEN EmptyMap ELSE snapshot.m,
                        ev'.body, TaskOf(queue, ev'.who).meta)
          ELSE UNCHANGED <<snapshot, cache>>]_vars

\* The response to a set of p has been handled after q was cached too: p is
\* cached with the response's value, q is still in the snapshot.
C34_Witness ==
    /\ ev.op = "task_handle"
    /\ ev.res = "True"
    /\ "set" \in DOMAIN ev.meta
    /\ IsMapping(ev.body)
    /\ DOMAIN ev.body = {"p"}
    /\ ~snapshot.none
    /\ "q" \in DOMAIN snapshot.m
    /\ "p" \in DOMAIN cache
    /\ cache["p"].value = ev.body["p"]
    /\ snapshot.m["p"] = ev.body["p"]

====
